---- MODULE Spec2Model ----
(***************************************************************************)
(* A model of the multi-camera orchestrator (MultiCameraStreamer), the     *)
(* camera acquisition protocol (RobustCameraManager), the session loop     *)
(* threads and the single-stream service (VideoStreamer) of                *)
(* attention-app-temporal.                                                 *)
(*                                                                         *)
(* Threads of the program that appear here:                                *)
(*   - caller threads (HTTP handlers) invoking start_camera_stream and     *)
(*     stop_camera_stream;                                                 *)
(*   - one acquisition thread per start call (the `target` thread of       *)
(*     _initialize_camera_with_timeout) running initialize_camera_robust,  *)
(*     whose strategy workers and initialisation worker are joined with a  *)
(*     timeout and abandoned when the join times out;                      *)
(*   - one loop thread per session (_camera_stream_loop);                  *)
(*   - one isolated processor per session;                                 *)
(*   - for VideoStreamer, a thread calling start_stream and stop_stream    *)
(*     and one loop thread per started stream (_stream_loop).              *)
(*                                                                         *)
(* Every start call that goes past the "already streaming" test is given   *)
(* an attempt number k; the capture handle, the stream_info dictionary and *)
(* the loop thread created by that call are the ones "of attempt k".       *)
(*                                                                         *)
(* Time is counted in seconds, per acquisition, and only timeouts take     *)
(* time: a worker that answers at all answers at once.                     *)
(*                                                                         *)
(* MultiCameraStreamer and VideoStreamer are separate objects with         *)
(* separate endpoints, and no variable modelled here is shared by the two; *)
(* a behaviour exercises one of them (variable `service`), so that the     *)
(* reachable states are those of the one and those of the other.           *)
(***************************************************************************)
EXTENDS Integers, FiniteSets, Sequences, TLC

\* ------------------------------------------------------------------ bounds
\* Number of start_camera_stream calls a behaviour may hold.
MaxStarts == 2

\* Identity ids the tracker may allocate between two resets.
MaxIds == 2
\* The tracker's disappearance threshold (configurable; a small value here).
MaxDisappeared == 1

\* Samples the classifier keeps per identity (its bounded pose history).
MaxHistory == 2
\* Consecutive frames a changed status must last to be committed (K).
HysteresisFrames == 2
\* worker threads of RobustCameraManager that are followed
MaxWorkers == 2
\* stop_all_streams calls that are followed
MaxStopAll == 1
\* the largest skip_frames should_skip_frame is tried with
MaxSkip == 3

\* ------------------------------------------------------- program constants
\* yaw_threshold and pitch_threshold of AttentionPipeline, in degrees
YawThreshold == 25
PitchThreshold == 20
\* iou_threshold of AttentionPipeline, in hundredths
IouThresholdPct == 30
\* strategies of test_camera_with_multiple_strategies, in list order:
\* 1 Direct OpenCV, 2 DirectShow, 3 Media Foundation, 4 V4L2, 5 Any
NumStrategies == 5
\* join timeout of one strategy's test worker, seconds
StrategyTimeout == 5
\* join timeout of the initialisation worker, seconds (the timeout argument
\* start_camera_stream passes down)
InitTimeout == 15
\* force_cleanup_camera: `for _ in range(3)`
CleanupTries == 3
\* join timeout of the acquisition thread in _initialize_camera_with_timeout
OuterTimeout == 15

\* ---------------------------------------------------------------- domains
Cams == {1, 2}
Callers == {1, 2}
Attempts == 1..MaxStarts
Workers == 1..MaxWorkers
Strategies == 1..NumStrategies
Ids == 1..MaxIds

\* Bounding boxes, by their extent along one axis (all of one height): the
\* IoU of two of them is 1/2, 1/5 or 0.
Boxes == {[x1 |-> 0, x2 |-> 3], [x1 |-> 1, x2 |-> 4], [x1 |-> 3, x2 |-> 6]}
\* the box of an id that has no Track
NoBox == [x1 |-> 0, x2 |-> 0]
\* recording ids, and the consumers of the combined MJPEG stream
RecIds == {1, 2}
NoRecording == 0
GenClients == {1, 2}

\* Head poses the pose adapter may report for a face, in degrees; halves and
\* thirds of their sums are whole and none lies on a threshold.
ZeroPose == [yaw |-> 0, pitch |-> 0]
Poses == {ZeroPose, [yaw |-> 42, pitch |-> 0], [yaw |-> 0, pitch |-> 36],
          [yaw |-> 42, pitch |-> 36]}
\* the classifier holds nothing under the id
EmptyHyst == [committed |-> "none", candidate |-> "none", streak |-> 0]
\* the frame had no detection of the identity
NoOutput == [face |-> FALSE, in |-> ZeroPose, pose |-> ZeroPose,
             status |-> "none", raw |-> "none", was |-> "none"]

\* A detection as it reaches the tracker: its box, and whether face
\* landmarks were found in it (head_vector is not None).
DetectionSamples == [box : Boxes, face : BOOLEAN]
\* the detections of one frame, in the detector's order
FrameInputs == UNION {[1..n -> DetectionSamples] : n \in 0..2}
NoAttempt == 0
NoCaller == 0

NoStats == [green |-> 0, yellow |-> 0, red |-> 0, total |-> -1]
ZeroStats == [green |-> 0, yellow |-> 0, red |-> 0, total |-> 0]
\* stats snapshots a processor may produce
StatsSamples == { [green |-> 2, yellow |-> 1, red |-> 0, total |-> 3] }

VARIABLES
  \* --- MultiCameraStreamer
  active_streams,    \* registry: camera id -> attempt whose stream_info is registered (0: absent)
  stream_lock,       \* caller holding stream_lock (0: free)
  aggregated_stats,  \* self.aggregated_stats
  \* --- caller threads
  callPc,            \* position of each caller thread
  callCam,           \* camera id argument of the call in progress
  callAtt,           \* attempt number of the start call in progress
  stopSteps,         \* steps the caller's stop_camera_stream call has performed
  nStarts,           \* start calls made so far
  \* --- per attempt: acquisition
  attCam,            \* camera id of the attempt (0: unused)
  attRet,            \* what the attempt's start call returned: "none", "true", "false"
  acqPhase,          \* acquisition thread: "none", "test", "init", "done", "exited"
  acqIdx,            \* strategies attempted so far (while the caller waits)
  acqClock,          \* seconds the caller has waited in its join of the acquisition thread
  acqResult,         \* result[0] of the acquisition thread: "pending", "cap", "none"
  initHung,          \* init_worker was abandoned by a timed-out join and is still blocked
  \* --- per attempt: the capture handle made by the initialisation worker
  capState,          \* "none", "open", "released"
  capRead,           \* a first frame was read on it
  capProps,          \* width, height and fps were set on it
  \* --- per attempt: stream_info and its loop thread
  is_streaming,      \* stream_info['is_streaming']
  latest_stats,      \* stream_info['latest_stats']
  loopPc,            \* loop thread: "none", "top", "read", or how it ended (LoopEnded)
  \* --- per attempt: the isolated processor made for the session
  procRunning,       \* the processor has been started and not stopped
  \* --- VideoStreamer (stream.py); its sessions are numbered by start_stream call
  service,           \* the streamer the clients of this behaviour drive: "multi", "single"
  vs_is_streaming,   \* self.is_streaming
  vs_current_source, \* self.current_source: session whose handle it is (0: None)
  vs_stream_thread,  \* self.stream_thread: session whose loop thread it is (0: None)
  vs_latest,         \* latest_frame/latest_stats: "none", "raw" (frame, stats None), "processed"
  pipeDirty,         \* the pipeline has processed a frame since its last reset()
  vsPc,              \* position of the thread calling start_stream/stop_stream
  vsCont,            \* what stop_stream returns into: "start" (start_stream) or "return"
  vsStarts,          \* start_stream calls made so far
  vsRet,             \* per session: what start_stream returned: "none", "true", "false"
  vsCap,             \* per session: its capture handle: "none", "open", "released"
  vsLoop,            \* per session: loop thread: "none", "top", "read", or how it ended
  vsLoopSrc,         \* per session: session whose handle the loop's read() is in (0: none)
  vsFrames,          \* per session: the loop's frame_count, modulo SkipFrames + 1
  \* --- RobustCameraManager.test_camera_with_multiple_strategies, one call
  tsPc,              \* the caller: "idle", "loop", "join", "returned"
  tsIdx,             \* strategies started so far; the last one is the one being joined
  tsWorker,          \* per strategy: its test_worker: "none", "running", "passed", "no_frame", "raised"
  tsCounted,         \* per strategy: what the caller took it for: "none", "success", "failure", "timeout"
  tsRet,             \* what the call returned: [ok, strategy]; ok "none" before, then "true", "false"
  \* --- AttentionPipeline: its tracker, and the identities the classifier has state for
  next_id,           \* tracker: the id the next new Track gets
  tkBox,             \* tracker: per id, the last box of its Track (NoBox: no Track)
  tkMiss,            \* tracker: per id, consecutive frames its Track was unmatched
  tkDisappeared,     \* tracker: get_disappeared_track_ids(), the ids retired by the last update
  histIds,           \* classifier: the ids it holds smoothing state for
  clearedIds,        \* ids whose state the last process_frame removed with clear_history(id)
  plFrameCount,      \* pipeline.frame_count, modulo 2
  lastDets,          \* the boxes of the detections of the last frame processed
  lastIds,           \* the id each of them came back with from tracker.update
  \* --- AttentionPipeline: one identity, and the classifier's state under its id
  clTrack,           \* "unused": the tracker has not given the id out since its reset;
                     \* "tracked": the id has a Track; "retired": its Track was retired
  clHist,            \* classifier: pose history of the id, oldest first
  clHyst,            \* classifier: [committed, candidate, streak] of the id
  clRawLog,          \* the statuses classified under the id since its state was last cleared
                     \* (the last HysteresisFrames of them)
  clOut,             \* what the last frame made of the identity's detection
  clCleared,         \* the last frame or reset removed state of the id
  \* --- recording of the multi-camera stream
  rcCam,             \* per camera: "off"; "starting": its processor runs, no registry entry yet;
                     \* "no_frame": registered, latest_frame is None; "frame": registered, with a latest_frame
  rcGen,             \* the consumers now iterating get_multi_camera_mjpeg_generator()
  rec,               \* multi_camera_recorder: per recording id "none", "active", "stopped"
  recHas,            \* per recording id: the cameras it has a frame of
  recPending,        \* per recording id: the cameras whose latest_frame, published while the
                     \* recording was active, has not been written to it
  recMissed,         \* per recording id: a frame published while it was active was lost to it
  recWrites,         \* per recording id: the consumers whose generator has written the latest
                     \* frames, as they are now, to it
  rcPc,              \* the thread in start_recording: "idle", "gather"
  rcId,              \* the recording id it was called with
  vrStreaming,       \* the VideoStreamer's is_streaming, as its recording API reads it
  vsRec,             \* video_recorder of the VideoStreamer: per recording id "none", "active", "stopped"
  rcRet,             \* the last return of the recording API: [n, op, id, ret, at], at being
                     \* where it returned: "no_cameras", "no_frames", or in the "recorder"
  \* --- one session's latest slot and its frame_lock
  frame_lock,        \* the thread holding the session's frame_lock: "free", "loop", "gen", "stats"
  fLoop,             \* the session's loop thread: "none", "read", "want_prev", "in_prev",
                     \* "want_publish", "in_publish", "ended"
  fGen,              \* the MJPEG generator of one consumer: "none", "top", "want_lock", "copying",
                     \* "write", "encode", "yielded", "sleep"
  fStats,            \* a thread in get_latest_stats(): "idle", "want"
  fLatest,           \* latest_frame is not None
  fRec,              \* get_active_recordings() is not empty
  fStreaming,        \* the session's is_streaming
  \* --- the worker threads of RobustCameraManager
  wkN,               \* worker threads started so far
  wkKind,            \* per worker: "none", "test" (test_worker), "init" (init_worker)
  wkPc,              \* per worker: the statement it is at
  wkTry,             \* per worker: the iteration of the release loop of force_cleanup_camera
  wkEnd,             \* per worker: "none", or what it ended as
  wkLog,             \* per worker: the calls it has made, in order
  \* --- the sessions of the MultiCameraStreamer, statement by statement
  seGot,             \* per attempt: what get_latest_result last gave: "none", "result", "nothing", "raised"
  saPc,              \* per caller: its stop_all_streams call: "none", "lock", "loop", "reset", "procs", "sleep"
  saIds,             \* per caller: camera_ids of its stop_all_streams call that are still to be stopped
  saStopped,         \* per caller: the cameras its stop_all_streams call found registered and stopped
  saCalls,           \* stop_all_streams calls made so far
  saReset,           \* per caller: pipeline.reset() of its stop_all_streams call: "none", "ok", "raised"
  \* --- the locks of the MultiCameraStreamer and the threads that take them
  lkReg,             \* per camera: the id is in active_streams
  lkStream,          \* the thread holding stream_lock (0: free)
  lkStats,           \* the thread holding stats_lock (0: free)
  lkFrame,           \* per camera: the thread holding the frame_lock of the registered session (0: free)
  lkLoop,            \* per camera: the loop thread of the registered session: "none", "run", "want_frame", "in_frame", "ended"
  lkOp,              \* per caller: the operation it is in ("none" outside)
  lkPc,              \* per caller: the statement it is at
  lkCam,             \* per caller: the camera id it is working on (0: none)
  lkTodo             \* per caller: the camera ids its loop over the registry snapshot has still to visit

callVars == <<callPc, callCam, callAtt, stopSteps, nStarts>>
acqVars == <<attCam, acqPhase, acqIdx, acqClock, acqResult, initHung>>
capVars == <<capState, capRead, capProps>>
sessVars == <<is_streaming, latest_stats, loopPc>>
procVars == <<procRunning>>
multiVars == <<active_streams, stream_lock, aggregated_stats, callVars, attRet,
               acqVars, capVars, sessVars, procVars>>
vsVars == <<vs_is_streaming, vs_current_source, vs_stream_thread, vs_latest,
            pipeDirty, vsPc, vsCont, vsStarts, vsRet, vsCap, vsLoop, vsLoopSrc,
            vsFrames>>
tsVars == <<tsPc, tsIdx, tsWorker, tsCounted, tsRet>>
\* the variables of the components that are exercised on their own
plVars == <<next_id, tkBox, tkMiss, tkDisappeared, histIds, clearedIds,
            plFrameCount, lastDets, lastIds>>
clVars == <<clTrack, clHist, clHyst, clRawLog, clOut, clCleared>>
mrVars == <<rcCam, rcGen, rec, recHas, recPending, recMissed, recWrites,
           rcPc, rcId>>
vrVars == <<vrStreaming, vsRec>>
rcVars == <<mrVars, vrVars, rcRet>>
fVars == <<frame_lock, fLoop, fGen, fStats, fLatest, fRec, fStreaming>>
wkVars == <<wkN, wkKind, wkPc, wkTry, wkEnd, wkLog>>
seVars == <<seGot, saCalls, saPc, saIds, saStopped, saReset>>
lkVars == <<lkReg, lkStream, lkStats, lkFrame, lkLoop, lkOp, lkPc, lkCam, lkTodo>>
\* the variables of the components added to the first ones
extraVars == <<fVars, wkVars, seVars, lkVars>>
otherVars == <<tsVars, plVars, clVars, rcVars, extraVars>>
vars == <<multiVars, service, vsVars, otherVars>>

\* The MultiCameraStreamer after construction: no session, no call.
ConstructedStreamer ==
  /\ active_streams = [c \in Cams |-> NoAttempt]
  /\ stream_lock = NoCaller
  /\ aggregated_stats = ZeroStats
  /\ callPc = [t \in Callers |-> "idle"]
  /\ callCam = [t \in Callers |-> 0]
  /\ callAtt = [t \in Callers |-> NoAttempt]
  /\ stopSteps = [t \in Callers |-> <<>>]
  /\ nStarts = 0
  /\ attCam = [k \in Attempts |-> 0]
  /\ attRet = [k \in Attempts |-> "none"]
  /\ acqPhase = [k \in Attempts |-> "none"]
  /\ acqIdx = [k \in Attempts |-> 0]
  /\ acqClock = [k \in Attempts |-> 0]
  /\ acqResult = [k \in Attempts |-> "pending"]
  /\ initHung = [k \in Attempts |-> FALSE]
  /\ capState = [k \in Attempts |-> "none"]
  /\ capRead = [k \in Attempts |-> FALSE]
  /\ capProps = [k \in Attempts |-> FALSE]
  /\ is_streaming = [k \in Attempts |-> FALSE]
  /\ latest_stats = [k \in Attempts |-> NoStats]
  /\ loopPc = [k \in Attempts |-> "none"]
  /\ procRunning = [k \in Attempts |-> FALSE]

\* Everything else after construction.
ConstructedOthers ==
  /\ vs_is_streaming = FALSE
  /\ vs_current_source = 0
  /\ vs_stream_thread = 0
  /\ vs_latest = "none"
  /\ pipeDirty = FALSE
  /\ vsPc = "idle"
  /\ vsCont = "return"
  /\ vsStarts = 0
  /\ vsRet = [j \in Attempts |-> "none"]
  /\ vsCap = [j \in Attempts |-> "none"]
  /\ vsLoop = [j \in Attempts |-> "none"]
  /\ vsLoopSrc = [j \in Attempts |-> 0]
  /\ vsFrames = [j \in Attempts |-> 0]
  /\ tsPc = "idle"
  /\ tsIdx = 0
  /\ tsWorker = [i \in Strategies |-> "none"]
  /\ tsCounted = [i \in Strategies |-> "none"]
  /\ tsRet = [ok |-> "none", strategy |-> 0]
  /\ next_id = 1
  /\ tkBox = [i \in Ids |-> NoBox]
  /\ tkMiss = [i \in Ids |-> 0]
  /\ tkDisappeared = {}
  /\ histIds = {}
  /\ clearedIds = {}
  /\ plFrameCount = 0
  /\ lastDets = <<>>
  /\ lastIds = <<>>
  /\ clTrack = "unused"
  /\ clHist = <<>>
  /\ clHyst = EmptyHyst
  /\ clRawLog = <<>>
  /\ clOut = NoOutput
  /\ clCleared = FALSE
  /\ rcCam = [c \in Cams |-> "off"]
  /\ rcGen = {}
  /\ rec = [r \in RecIds |-> "none"]
  /\ recHas = [r \in RecIds |-> {}]
  /\ recPending = [r \in RecIds |-> {}]
  /\ recMissed = [r \in RecIds |-> FALSE]
  /\ recWrites = [r \in RecIds |-> {}]
  /\ rcPc = "idle"
  /\ rcId = NoRecording
  /\ vrStreaming = FALSE
  /\ vsRec = [r \in RecIds |-> "none"]
  /\ rcRet = [n |-> 0, op |-> "none", id |-> NoRecording, ret |-> "none", at |-> "none"]
  /\ frame_lock = "free"
  /\ fLoop = "none"
  /\ fGen = "none"
  /\ fStats = "idle"
  /\ fLatest = FALSE
  /\ fRec = FALSE
  /\ fStreaming = FALSE
  /\ wkN = 0
  /\ wkKind = [w \in Workers |-> "none"]
  /\ wkPc = [w \in Workers |-> "none"]
  /\ wkTry = [w \in Workers |-> 0]
  /\ wkEnd = [w \in Workers |-> "none"]
  /\ wkLog = [w \in Workers |-> <<>>]
  /\ seGot = [k \in Attempts |-> "none"]
  /\ saCalls = 0
  /\ saPc = [t \in Callers |-> "none"]
  /\ saIds = [t \in Callers |-> <<>>]
  /\ saStopped = [t \in Callers |-> {}]
  /\ saReset = [t \in Callers |-> "none"]
  /\ lkReg = [c \in Cams |-> FALSE]
  /\ lkStream = 0
  /\ lkStats = 0
  /\ lkFrame = [c \in Cams |-> 0]
  /\ lkLoop = [c \in Cams |-> "none"]
  /\ lkOp = [t \in Callers |-> "none"]
  /\ lkPc = [t \in Callers |-> "idle"]
  /\ lkCam = [t \in Callers |-> 0]
  /\ lkTodo = [t \in Callers |-> {}]

\* The state after construction, whatever the clients go on to drive.
Constructed == ConstructedStreamer /\ ConstructedOthers

Init ==
  /\ Constructed
  /\ service \in {"multi", "single"}


\* ------------------------------------------------------------ small helpers
SetAt(f, k, v) == [f EXCEPT ![k] = v]

\* ===================================================== RobustCameraManager
\* What one run of init_worker leaves behind, by what the native calls do:
\*   outcome "ok"          the handle opens and the first read gives a frame
\*           "read_failed" the handle opens, the first read gives no frame
\*           "not_opened"  VideoCapture(...) gives a handle that is not opened
\*           "raised"      the cleanup or the VideoCapture call raises
\* cap: state of the handle; read: first frame read; props: width, height and
\* fps set; result: result[0] is the handle; exc: exception[0] is set.
InitWorkerSkipsReadTest(outcome) ==
  CASE outcome = "ok" ->
         [cap |-> "open", read |-> TRUE, props |-> TRUE, result |-> TRUE, exc |-> FALSE]
    [] outcome = "read_failed" ->
         [cap |-> "open", read |-> FALSE, props |-> TRUE, result |-> TRUE, exc |-> FALSE]
    [] outcome = "not_opened" ->
         [cap |-> "none", read |-> FALSE, props |-> FALSE, result |-> FALSE, exc |-> TRUE]
    [] OTHER ->
         [cap |-> "none", read |-> FALSE, props |-> FALSE, result |-> FALSE, exc |-> TRUE]

InitWorkerRun(outcome) ==
  CASE outcome = "ok" ->
         [cap |-> "open", read |-> TRUE, props |-> TRUE, result |-> TRUE, exc |-> FALSE]
    [] outcome = "read_failed" ->
         [cap |-> "released", read |-> FALSE, props |-> FALSE, result |-> FALSE, exc |-> TRUE]
    [] outcome = "not_opened" ->
         [cap |-> "none", read |-> FALSE, props |-> FALSE, result |-> FALSE, exc |-> TRUE]
    [] OTHER ->
         [cap |-> "none", read |-> FALSE, props |-> FALSE, result |-> FALSE, exc |-> TRUE]

InitOutcomes == {"ok", "read_failed", "not_opened", "raised"}

\* The value initialize_camera_robust returns after joining init_worker:
\* None when the worker is still alive, when exception[0] is set or when
\* result[0] is empty, the handle otherwise.
RobustReturn(alive, w) ==
  IF alive THEN "none"
  ELSE IF w.exc THEN "none"
  ELSE IF w.result THEN "cap"
  ELSE "none"

\* The caller of the attempt is still inside thread.join(timeout) of
\* _initialize_camera_with_timeout.
CallerJoining(k) ==
  \E t \in Callers : callPc[t] = "start_join" /\ callAtt[t] = k

\* The acquisition thread's own time does not pass the outer join's timeout
\* while the caller still waits in that join: the caller's timeout comes first.
AcqMayRun(k) == CallerJoining(k) => acqClock[k] < OuterTimeout

\* Where the strategy loop goes after strategy number i did not succeed.
AfterFailedStrategy(i) == IF i < NumStrategies THEN "test" ELSE "done"

\* One iteration of the loop of test_camera_with_multiple_strategies, run
\* while the caller waits for the acquisition thread: the strategy's test
\* worker is started and joined for StrategyTimeout seconds.
\*   "ok"      the worker opened the device, read a frame and released it
\*   "fail"    the worker ended without a frame (not opened, no frame, raised)
\*   "timeout" the worker is still alive after the join: it is abandoned
\* After the last strategy initialize_camera_robust returns None.
AcqTestStrategy(k) ==
  /\ acqPhase[k] = "test"
  /\ CallerJoining(k)
  /\ AcqMayRun(k)
  /\ \E outcome \in {"ok", "fail", "timeout"} :
       LET i == acqIdx[k] + 1 IN
       /\ acqIdx' = SetAt(acqIdx, k, i)
       /\ acqClock' = SetAt(acqClock, k,
                        IF outcome = "timeout" THEN acqClock[k] + StrategyTimeout
                        ELSE acqClock[k])
       /\ IF outcome = "ok"
            THEN /\ acqPhase' = SetAt(acqPhase, k, "init")
                 /\ UNCHANGED acqResult
            ELSE /\ acqPhase' = SetAt(acqPhase, k, AfterFailedStrategy(i))
                 /\ acqResult' = SetAt(acqResult, k,
                                   IF AfterFailedStrategy(i) = "done" THEN "none"
                                   ELSE acqResult[k])
  /\ UNCHANGED <<service, vsVars, otherVars>>
  /\ UNCHANGED <<active_streams, stream_lock, aggregated_stats, callVars, attRet,
                 attCam, initHung, capVars, sessVars, procVars>>

\* The second half of initialize_camera_robust: init_worker is started with the
\* strategy that passed (the one tested last) and ends before its join times out.
AcqInitQuick(k) ==
  /\ acqPhase[k] = "init"
  /\ CallerJoining(k)
  /\ AcqMayRun(k)
  /\ \E outcome \in InitOutcomes :
       LET w == InitWorkerRun(outcome) IN
       /\ capState' = SetAt(capState, k, w.cap)
       /\ capRead' = SetAt(capRead, k, w.read)
       /\ capProps' = SetAt(capProps, k, w.props)
       /\ acqResult' = SetAt(acqResult, k, RobustReturn(FALSE, w))
  /\ acqPhase' = SetAt(acqPhase, k, "done")
  /\ UNCHANGED <<service, vsVars, otherVars>>
  /\ UNCHANGED <<active_streams, stream_lock, aggregated_stats, callVars, attRet,
                 attCam, acqIdx, acqClock, initHung, sessVars, procVars>>

\* init_worker is still alive when its join of InitTimeout seconds times out:
\* None is returned and the worker is abandoned.
AcqInitTimeout(k) ==
  /\ acqPhase[k] = "init"
  /\ CallerJoining(k)
  /\ AcqMayRun(k)
  /\ acqClock' = SetAt(acqClock, k, acqClock[k] + InitTimeout)
  /\ initHung' = SetAt(initHung, k, TRUE)
  /\ acqResult' = SetAt(acqResult, k, RobustReturn(TRUE, InitWorkerRun("raised")))
  /\ acqPhase' = SetAt(acqPhase, k, "done")
  /\ UNCHANGED <<service, vsVars, otherVars>>
  /\ UNCHANGED <<active_streams, stream_lock, aggregated_stats, callVars, attRet,
                 attCam, acqIdx, capVars, sessVars, procVars>>

\* The acquisition thread of a caller that gave up waiting runs the rest of
\* the strategy loop: a strategy passes and init_worker is next, or none does
\* and the thread ends.
AcqAbandonedTests(k) ==
  /\ acqPhase[k] = "test"
  /\ ~CallerJoining(k)
  /\ \E passes \in BOOLEAN :
       acqPhase' = SetAt(acqPhase, k, IF passes THEN "init" ELSE "exited")
  /\ UNCHANGED <<service, vsVars, otherVars>>
  /\ UNCHANGED <<active_streams, stream_lock, aggregated_stats, callVars, attRet,
                 attCam, acqIdx, acqClock, acqResult, initHung,
                 capVars, sessVars, procVars>>

\* ... and its init_worker: the handle it may open stays in a result[0]
\* nobody reads, and is not released; a worker still alive after the join
\* is abandoned in its turn.
AcqAbandonedInit(k) ==
  /\ acqPhase[k] = "init"
  /\ ~CallerJoining(k)
  /\ \E outcome \in InitOutcomes \cup {"timeout"} :
       IF outcome = "timeout"
         THEN /\ initHung' = SetAt(initHung, k, TRUE)
              /\ UNCHANGED capVars
         ELSE LET w == InitWorkerRun(outcome) IN
              /\ capState' = SetAt(capState, k, w.cap)
              /\ capRead' = SetAt(capRead, k, w.read)
              /\ capProps' = SetAt(capProps, k, w.props)
              /\ UNCHANGED initHung
  /\ acqPhase' = SetAt(acqPhase, k, "exited")
  /\ UNCHANGED <<service, vsVars, otherVars>>
  /\ UNCHANGED <<active_streams, stream_lock, aggregated_stats, callVars, attRet,
                 attCam, acqIdx, acqClock, acqResult, sessVars, procVars>>

\* The native call the abandoned init_worker was blocked in returns: the worker
\* goes on as it would have; nobody reads its result[0] any more.
HungInitWorkerEnds(k) ==
  /\ initHung[k]
  /\ initHung' = SetAt(initHung, k, FALSE)
  /\ \E outcome \in InitOutcomes :
       LET w == InitWorkerRun(outcome) IN
       /\ capState' = SetAt(capState, k, w.cap)
       /\ capRead' = SetAt(capRead, k, w.read)
       /\ capProps' = SetAt(capProps, k, w.props)
  /\ UNCHANGED <<service, vsVars, otherVars>>
  /\ UNCHANGED <<active_streams, stream_lock, aggregated_stats, callVars, attRet,
                 attCam, acqPhase, acqIdx, acqClock, acqResult,
                 sessVars, procVars>>

\* ===================================================== MultiCameraStreamer
\* ------------------------------------------------- start_camera_stream
\* `camera_id in self.active_streams`
AlreadyStreamingNeverTrue(c) == FALSE

AlreadyStreaming(c) == active_streams[c] # NoAttempt

\* A caller thread enters start_camera_stream(c) and reaches `with self.stream_lock`.
CallStart(t, c) ==
  /\ service = "multi"
  /\ callPc[t] = "idle"
  /\ nStarts < MaxStarts
  /\ nStarts' = nStarts + 1
  /\ callPc' = SetAt(callPc, t, "start_lock")
  /\ callCam' = SetAt(callCam, t, c)
  /\ callAtt' = SetAt(callAtt, t, nStarts + 1)
  /\ UNCHANGED <<service, vsVars, otherVars>>
  /\ UNCHANGED <<active_streams, stream_lock, aggregated_stats, attRet, stopSteps,
                 acqVars, capVars, sessVars, procVars>>

\* The call returns: the caller's locals are gone.
Return(t) ==
  /\ callPc' = SetAt(callPc, t, "idle")
  /\ callCam' = SetAt(callCam, t, 0)
  /\ callAtt' = SetAt(callAtt, t, NoAttempt)
  /\ stopSteps' = SetAt(stopSteps, t, <<>>)

\* The lock is acquired and the registry is tested: an id already in it
\* returns True at once; otherwise the acquisition thread is started and
\* the caller joins it, the lock still held.
StartLocked(t) ==
  /\ callPc[t] = "start_lock"
  /\ stream_lock = NoCaller
  /\ LET c == callCam[t]
         k == callAtt[t] IN
     IF AlreadyStreaming(c)
       THEN /\ Return(t)
            /\ attRet' = SetAt(attRet, k, "true")
            /\ UNCHANGED <<stream_lock, attCam, acqPhase>>
       ELSE /\ stream_lock' = t
            /\ callPc' = SetAt(callPc, t, "start_join")
            /\ attCam' = SetAt(attCam, k, c)
            /\ acqPhase' = SetAt(acqPhase, k, "test")
            /\ UNCHANGED <<callCam, callAtt, stopSteps, attRet>>
  /\ UNCHANGED <<service, vsVars, otherVars>>
  /\ UNCHANGED <<active_streams, aggregated_stats, nStarts,
                 acqIdx, acqClock, acqResult, initHung,
                 capVars, sessVars, procVars>>

\* thread.join(timeout) of _initialize_camera_with_timeout has returned with
\* the acquisition thread ended: is_alive() is False ...
AcqThreadEnded(k) == acqPhase[k] = "done" /\ acqClock[k] <= OuterTimeout
\* ... or it returned because the timeout ran out.
AcqJoinTimedOut(k) == acqClock[k] >= OuterTimeout

\* The handle _initialize_camera_with_timeout returns: None when the thread
\* is still alive or result[0] is None.
OuterReturn(alive, result) ==
  IF alive THEN "none"
  ELSE IF result = "cap" THEN "cap" ELSE "none"

\* The join of the acquisition thread returns; `cap is None` returns False.
\* A thread that has ended takes its locals with it; one that is still
\* alive runs on, its locals and its result[0] out of anybody's sight.
StartJoin(t) ==
  /\ callPc[t] = "start_join"
  /\ LET k == callAtt[t] IN
     \E alive \in BOOLEAN :
       /\ alive => AcqJoinTimedOut(k)
       /\ ~alive => AcqThreadEnded(k)
       /\ acqPhase' = SetAt(acqPhase, k,
                        IF acqPhase[k] = "done" THEN "exited" ELSE acqPhase[k])
       /\ acqIdx' = SetAt(acqIdx, k, 0)
       /\ acqClock' = SetAt(acqClock, k, 0)
       /\ acqResult' = SetAt(acqResult, k, "pending")
       /\ IF OuterReturn(alive, acqResult[k]) = "cap"
            THEN /\ callPc' = SetAt(callPc, t, "start_proc")
                 /\ UNCHANGED <<stream_lock, callCam, callAtt, stopSteps, attRet>>
            ELSE /\ Return(t)
                 /\ stream_lock' = NoCaller
                 /\ attRet' = SetAt(attRet, k, "false")
  /\ UNCHANGED <<service, vsVars, otherVars>>
  /\ UNCHANGED <<active_streams, aggregated_stats, nStarts, attCam, initHung,
                 capVars, sessVars, procVars>>

\* create_camera_processor and start_processing; either may raise, and the
\* handler then releases the handle and returns False.
StartProcessor(t) ==
  /\ callPc[t] = "start_proc"
  /\ LET k == callAtt[t] IN
     \E outcome \in {"ok", "raises"} :
       IF outcome = "ok"
         THEN /\ procRunning' = SetAt(procRunning, k, TRUE)
              /\ callPc' = SetAt(callPc, t, "start_thread")
              /\ UNCHANGED <<stream_lock, callCam, callAtt, stopSteps, attRet, capState>>
         ELSE /\ UNCHANGED procRunning
              /\ capState' = SetAt(capState, k, "released")
              /\ Return(t)
              /\ stream_lock' = NoCaller
              /\ attRet' = SetAt(attRet, k, "false")
  /\ UNCHANGED <<service, vsVars, otherVars>>
  /\ UNCHANGED <<active_streams, aggregated_stats, nStarts,
                 acqVars, capRead, capProps, sessVars>>

\* stream_info is built with is_streaming True and the loop thread is started.
StartThread(t) ==
  /\ callPc[t] = "start_thread"
  /\ LET k == callAtt[t] IN
     /\ is_streaming' = SetAt(is_streaming, k, TRUE)
     /\ latest_stats' = SetAt(latest_stats, k, NoStats)
     /\ loopPc' = SetAt(loopPc, k, "top")
  /\ callPc' = SetAt(callPc, t, "start_register")
  /\ UNCHANGED <<service, vsVars, otherVars>>
  /\ UNCHANGED <<active_streams, stream_lock, aggregated_stats, callCam, callAtt,
                 stopSteps, nStarts, attRet, acqVars, capVars, procVars>>

\* self.active_streams[camera_id] = stream_info; return True.
StartRegister(t) ==
  /\ callPc[t] = "start_register"
  /\ active_streams' = SetAt(active_streams, callCam[t], callAtt[t])
  /\ Return(t)
  /\ stream_lock' = NoCaller
  /\ attRet' = SetAt(attRet, callAtt[t], "true")
  /\ UNCHANGED <<service, vsVars, otherVars>>
  /\ UNCHANGED <<aggregated_stats, nStarts, acqVars, capVars, sessVars, procVars>>

\* ------------------------------------------------------ isolated manager
Plus(a, b) ==
  [green |-> a.green + b.green, yellow |-> a.yellow + b.yellow,
   red |-> a.red + b.red, total |-> a.total + b.total]

\* a snapshot that is None counts as zero
OrZero(s) == IF s = NoStats THEN ZeroStats ELSE s

RECURSIVE SumUpTo(_, _)
\* the sum of f[1], ..., f[n]
SumUpTo(f, n) == IF n = 0 THEN ZeroStats ELSE Plus(SumUpTo(f, n - 1), f[n])

\* isolated_manager.get_aggregated_stats(): the sum of the latest results of
\* the processors that are running, given the latest result of each.
ManagerAggregated(latest) ==
  SumUpTo([k \in Attempts |->
             IF procRunning[k] THEN OrZero(latest[k]) ELSE ZeroStats],
          MaxStarts)

\* --------------------------------------------------- _camera_stream_loop
\* The ways the loop thread ends, by the place the loop is left at:
\*   "ended_flag" the while test failed
\*   "ended_read" cap.read() gave no frame (`if not ret: break`) or raised
\*   "ended_exc"  submit_frame or get_latest_result raised and the except
\*                clause broke out of the loop
LoopEnded == {"ended_flag", "ended_read", "ended_exc"}

\* The loop is left: the finally clause sets is_streaming False and the
\* thread ends.
LoopEndsKeepsFlag(k, why) ==
  /\ UNCHANGED is_streaming
  /\ loopPc' = SetAt(loopPc, k, why)

LoopEnds(k, why) ==
  /\ is_streaming' = SetAt(is_streaming, k, FALSE)
  /\ loopPc' = SetAt(loopPc, k, why)

\* The while test as it would be were the flag and the handle looked up in
\* the registry under the camera id on every iteration (not in the source,
\* where both come from the stream_info the thread was started with).
LoopTestRegistered(k) ==
  LET r == active_streams[attCam[k]] IN
  IF r # NoAttempt /\ is_streaming[r] /\ capState[r] = "open"
    THEN /\ loopPc' = SetAt(loopPc, k, "read")
         /\ UNCHANGED is_streaming
    ELSE LoopEnds(k, "ended_flag")

\* `while stream_info['is_streaming'] and cap.isOpened()`: the thread enters
\* cap.read() or leaves the loop.
LoopTest(k) ==
  IF is_streaming[k] /\ capState[k] = "open"
    THEN /\ loopPc' = SetAt(loopPc, k, "read")
         /\ UNCHANGED is_streaming
    ELSE LoopEnds(k, "ended_flag")

\* The thread starts running: the first test of the while condition.
LoopTop(k) ==
  /\ loopPc[k] = "top"
  /\ LoopTest(k)
  /\ UNCHANGED <<service, vsVars, otherVars>>
  /\ UNCHANGED <<active_streams, stream_lock, aggregated_stats, callVars, attRet,
                 acqVars, capVars, latest_stats, procVars>>

\* What cap.read() can give: a released handle gives no frame.
ReadOutcomes(k) ==
  IF capState[k] = "open" THEN {"frame", "no_frame", "raises"}
  ELSE {"no_frame", "raises"}

\* cap.read() returns without a frame or raises (a read that blocks is no
\* step being taken): `if not ret: break`, and the except clause breaks too.
LoopReadFails(k) ==
  /\ loopPc[k] = "read"
  /\ \E r \in ReadOutcomes(k) \ {"frame"} : LoopEnds(k, "ended_read")
  /\ UNCHANGED <<service, vsVars, otherVars>>
  /\ UNCHANGED <<active_streams, stream_lock, aggregated_stats, callVars, attRet,
                 acqVars, capVars, latest_stats, procVars>>

\* What get_latest_result can give: the processor's last completed result,
\* or one it completed since (None until there is one).
LatestResults(k) == {latest_stats[k]} \cup StatsSamples

\* cap.read() returns a frame: submit_frame, get_latest_result, publication
\* of the result and of the aggregated stats, the pacing sleep and the next
\* test of the while condition. When submit_frame or get_latest_result
\* raises, the except clause of the loop body breaks out of the loop.
LoopFrame(k) ==
  /\ loopPc[k] = "read"
  /\ "frame" \in ReadOutcomes(k)
  /\ \E outcome \in {"ok", "raises"} :
       IF outcome = "raises"
         THEN /\ LoopEnds(k, "ended_exc")
              /\ UNCHANGED <<latest_stats, aggregated_stats>>
         ELSE /\ \E res \in LatestResults(k) :
                   IF res # NoStats
                     THEN /\ latest_stats' = SetAt(latest_stats, k, res)
                          /\ aggregated_stats' = ManagerAggregated(latest_stats')
                     ELSE UNCHANGED <<latest_stats, aggregated_stats>>
              /\ LoopTest(k)
  /\ UNCHANGED <<service, vsVars, otherVars>>
  /\ UNCHANGED <<active_streams, stream_lock, callVars, attRet,
                 acqVars, capVars, procVars>>

\* get_aggregated_stats(): a copy of self.aggregated_stats
get_aggregated_stats == aggregated_stats

\* is_camera_active(c)
is_camera_active(c) ==
  active_streams[c] # NoAttempt /\ is_streaming[active_streams[c]]

\* --------------------------------------------------- stop_camera_stream
\* The order of the steps of stop_camera_stream: the position reached after
\* each step.
StopNextJoinBeforeRelease(step) ==
  CASE step = "flag" -> "stop_join"
    [] step = "join" -> "stop_release"
    [] step = "release" -> "stop_del"
    [] OTHER -> "idle"

StopNext(step) ==
  CASE step = "flag" -> "stop_release"
    [] step = "release" -> "stop_join"
    [] step = "join" -> "stop_del"
    [] OTHER -> "idle"

\* stream_thread.join(timeout=2.0) can return: the thread has ended, or the
\* timeout has run out, which it does whatever the thread is doing.
JoinWaitsForThread(k) == loopPc[k] \in LoopEnded

JoinMayReturn(k) == loopPc[k] \in LoopEnded \/ loopPc[k] \notin LoopEnded

\* A caller thread enters stop_camera_stream(c) and acquires the lock (it
\* waits for it while it is held): a registered id has its is_streaming set
\* False, an id that is not registered returns at once.
StopEntered(t, c) ==
  /\ callPc[t] = "idle"
  /\ stream_lock = NoCaller
  /\ LET k == active_streams[c] IN
     IF k # NoAttempt
       THEN /\ stream_lock' = t
            /\ callCam' = SetAt(callCam, t, c)
            /\ callAtt' = SetAt(callAtt, t, k)
            /\ is_streaming' = SetAt(is_streaming, k, FALSE)
            /\ stopSteps' = SetAt(stopSteps, t, Append(stopSteps[t], "flag"))
            /\ callPc' = SetAt(callPc, t, StopNext("flag"))
       ELSE UNCHANGED <<stream_lock, callPc, callCam, callAtt, is_streaming, stopSteps>>
  /\ UNCHANGED <<active_streams, aggregated_stats, nStarts,
                 attRet, acqVars, capVars, latest_stats, loopPc, procVars>>

\* A client calls stop_camera_stream(c) (stop_all_streams calls it for the
\* ids of its list, one after the other).
CallStop(t, c) ==
  /\ service \in {"multi", "sessions"}
  /\ saPc[t] = "none"
  /\ StopEntered(t, c)
  /\ UNCHANGED <<service, vsVars, otherVars>>

\* stream_info['cap'].release()
StopRelease(t) ==
  /\ callPc[t] = "stop_release"
  /\ capState' = SetAt(capState, callAtt[t], "released")
  /\ stopSteps' = SetAt(stopSteps, t, Append(stopSteps[t], "release"))
  /\ callPc' = SetAt(callPc, t, StopNext("release"))
  /\ UNCHANGED <<service, vsVars, otherVars>>
  /\ UNCHANGED <<active_streams, stream_lock, aggregated_stats, callCam, callAtt,
                 nStarts, attRet, acqVars, capRead, capProps, sessVars, procVars>>

\* the wait for the loop thread: join(timeout=2.0) if it is alive
StopJoin(t) ==
  /\ callPc[t] = "stop_join"
  /\ JoinMayReturn(callAtt[t])
  /\ stopSteps' = SetAt(stopSteps, t, Append(stopSteps[t], "join"))
  /\ callPc' = SetAt(callPc, t, StopNext("join"))
  /\ UNCHANGED <<service, vsVars, otherVars>>
  /\ UNCHANGED <<active_streams, stream_lock, aggregated_stats, callCam, callAtt,
                 nStarts, attRet, acqVars, capVars, sessVars, procVars>>

\* del self.active_streams[camera_id]; stop_camera_processing(camera_id);
\* the lock is released and the call returns.
StopDelete(t) ==
  /\ callPc[t] = "stop_del"
  /\ active_streams' = SetAt(active_streams, callCam[t], NoAttempt)
  /\ procRunning' = SetAt(procRunning, callAtt[t], FALSE)
  /\ stream_lock' = NoCaller
  /\ Return(t)
  /\ UNCHANGED <<service, vsVars, otherVars>>
  /\ UNCHANGED <<aggregated_stats, nStarts, attRet, acqVars, capVars, sessVars>>

\* =========================================================== VideoStreamer
\* skip_frames of _stream_loop: windows_config.get('skip_frames', 2)
SkipFrames == 2

\* should_skip_frame(frame_count, skip_frames): no frame is skipped (not in
\* the source), or the frames whose count is no multiple of skip_frames + 1
ShouldSkipNever(frame_count, skip_frames) == FALSE

should_skip_frame(frame_count, skip_frames) ==
  frame_count % (skip_frames + 1) # 0

\* is_active()
is_active == vs_is_streaming

\* The thread object in self.stream_thread is alive.
VsThreadAlive ==
  vs_stream_thread # 0 /\ vsLoop[vs_stream_thread] \in {"top", "read"}

\* start_stream or stop_stream returns.
VsReturn ==
  /\ vsPc' = "idle"
  /\ vsCont' = "return"

\* start_stream is entered: `if self.is_streaming: self.stop_stream()`.
VsCallStart ==
  /\ service = "single"
  /\ vsPc = "idle"
  /\ vsStarts < MaxStarts
  /\ vsStarts' = vsStarts + 1
  /\ vsCont' = "start"
  /\ vsPc' = IF vs_is_streaming THEN "stop_flag" ELSE "start_open"
  /\ UNCHANGED <<vs_is_streaming, vs_current_source, vs_stream_thread, vs_latest,
                 pipeDirty, vsRet, vsCap, vsLoop, vsLoopSrc, vsFrames>>
  /\ UNCHANGED <<multiVars, service, otherVars>>

\* stop_stream is entered by a client.
VsCallStop ==
  /\ service = "single"
  /\ vsPc = "idle"
  /\ vsPc' = "stop_flag"
  /\ vsCont' = "return"
  /\ UNCHANGED <<vs_is_streaming, vs_current_source, vs_stream_thread, vs_latest,
                 pipeDirty, vsStarts, vsRet, vsCap, vsLoop, vsLoopSrc, vsFrames>>
  /\ UNCHANGED <<multiVars, service, otherVars>>

\* self.is_streaming = False, and the test of the thread being alive
VsStopFlag ==
  /\ vsPc = "stop_flag"
  /\ vs_is_streaming' = FALSE
  /\ vsPc' = IF VsThreadAlive THEN "stop_join" ELSE "stop_release"
  /\ UNCHANGED <<vs_current_source, vs_stream_thread, vs_latest, pipeDirty,
                 vsCont, vsStarts, vsRet, vsCap, vsLoop, vsLoopSrc, vsFrames>>
  /\ UNCHANGED <<multiVars, service, otherVars>>

\* self.stream_thread.join(timeout=2.0) returns: the thread has ended or
\* the timeout has run out.
VsStopJoin ==
  /\ vsPc = "stop_join"
  /\ vsPc' = "stop_release"
  /\ UNCHANGED <<vs_is_streaming, vs_current_source, vs_stream_thread, vs_latest,
                 pipeDirty, vsCont, vsStarts, vsRet, vsCap, vsLoop, vsLoopSrc,
                 vsFrames>>
  /\ UNCHANGED <<multiVars, service, otherVars>>

\* `if self.current_source:` release() and current_source = None
VsStopRelease ==
  /\ vsPc = "stop_release"
  /\ IF vs_current_source # 0
       THEN /\ vsCap' = SetAt(vsCap, vs_current_source, "released")
            /\ vs_current_source' = 0
       ELSE UNCHANGED <<vsCap, vs_current_source>>
  /\ vsPc' = "stop_reset"
  /\ UNCHANGED <<vs_is_streaming, vs_stream_thread, vs_latest, pipeDirty,
                 vsCont, vsStarts, vsRet, vsLoop, vsLoopSrc, vsFrames>>
  /\ UNCHANGED <<multiVars, service, otherVars>>

\* self.pipeline.reset(); stop_stream returns, into start_stream or to the client.
VsStopReset ==
  /\ vsPc = "stop_reset"
  /\ pipeDirty' = FALSE
  /\ IF vsCont = "start"
       THEN /\ vsPc' = "start_open"
            /\ UNCHANGED vsCont
       ELSE VsReturn
  /\ UNCHANGED <<vs_is_streaming, vs_current_source, vs_stream_thread, vs_latest,
                 vsStarts, vsRet, vsCap, vsLoop, vsLoopSrc, vsFrames>>
  /\ UNCHANGED <<multiVars, service, otherVars>>

\* The capture is made: a source that is not opened (or an unknown source
\* kind) returns False; otherwise the properties are set on the handle.
VsStartOpen ==
  /\ vsPc = "start_open"
  /\ \E opened \in BOOLEAN :
       IF opened
         THEN /\ vsCap' = SetAt(vsCap, vsStarts, "open")
              /\ vsPc' = "start_source"
              /\ UNCHANGED <<vsCont, vsRet>>
         ELSE /\ vsRet' = SetAt(vsRet, vsStarts, "false")
              /\ VsReturn
              /\ UNCHANGED vsCap
  /\ UNCHANGED <<vs_is_streaming, vs_current_source, vs_stream_thread, vs_latest,
                 pipeDirty, vsStarts, vsLoop, vsLoopSrc, vsFrames>>
  /\ UNCHANGED <<multiVars, service, otherVars>>

\* self.current_source = cap
VsStartSource ==
  /\ vsPc = "start_source"
  /\ vs_current_source' = vsStarts
  /\ vsPc' = "start_flag"
  /\ UNCHANGED <<vs_is_streaming, vs_stream_thread, vs_latest, pipeDirty,
                 vsCont, vsStarts, vsRet, vsCap, vsLoop, vsLoopSrc, vsFrames>>
  /\ UNCHANGED <<multiVars, service, otherVars>>

\* self.is_streaming = True
VsStartFlag ==
  /\ vsPc = "start_flag"
  /\ vs_is_streaming' = TRUE
  /\ vsPc' = "start_thread"
  /\ UNCHANGED <<vs_current_source, vs_stream_thread, vs_latest, pipeDirty,
                 vsCont, vsStarts, vsRet, vsCap, vsLoop, vsLoopSrc, vsFrames>>
  /\ UNCHANGED <<multiVars, service, otherVars>>

\* The loop thread is made and started; start_stream returns True.
VsStartThread ==
  /\ vsPc = "start_thread"
  /\ vs_stream_thread' = vsStarts
  /\ vsLoop' = SetAt(vsLoop, vsStarts, "top")
  /\ vsRet' = SetAt(vsRet, vsStarts, "true")
  /\ VsReturn
  /\ UNCHANGED <<vs_is_streaming, vs_current_source, vs_latest, pipeDirty,
                 vsStarts, vsCap, vsLoopSrc, vsFrames>>
  /\ UNCHANGED <<multiVars, service, otherVars>>

\* ------------------------------------------------------------ _stream_loop
\* The loop is left: `self.is_streaming = False` after the loop, and the
\* thread ends.
VsLoopEnds(j, why) ==
  /\ vs_is_streaming' = FALSE
  /\ vsLoop' = SetAt(vsLoop, j, why)
  /\ vsLoopSrc' = SetAt(vsLoopSrc, j, 0)

\* `while self.is_streaming and self.current_source`: the thread enters
\* self.current_source.read(), on the handle current_source is then, or
\* leaves the loop.
VsLoopTest(j) ==
  IF vs_is_streaming /\ vs_current_source # 0
    THEN /\ vsLoop' = SetAt(vsLoop, j, "read")
         /\ vsLoopSrc' = SetAt(vsLoopSrc, j, vs_current_source)
         /\ UNCHANGED vs_is_streaming
    ELSE VsLoopEnds(j, "ended_flag")

\* The thread starts running: the first test of the while condition.
VsLoopTop(j) ==
  /\ vsLoop[j] = "top"
  /\ VsLoopTest(j)
  /\ UNCHANGED <<vs_current_source, vs_stream_thread, vs_latest, pipeDirty,
                 vsPc, vsCont, vsStarts, vsRet, vsCap, vsFrames>>
  /\ UNCHANGED <<multiVars, service, otherVars>>

\* read() returns without a frame or raises: `if not ret: break`, and the
\* except clause breaks too.
VsLoopReadFails(j) ==
  /\ vsLoop[j] = "read"
  /\ VsLoopEnds(j, "ended_read")
  /\ UNCHANGED <<vs_current_source, vs_stream_thread, vs_latest, pipeDirty,
                 vsPc, vsCont, vsStarts, vsRet, vsCap, vsFrames>>
  /\ UNCHANGED <<multiVars, service, otherVars>>

\* read() returns a frame: frame_count is incremented; a frame that is not
\* skipped goes through the pipeline, a skipped one republishes the previous
\* frame and stats (the raw frame and no stats when there is none); then the
\* pacing sleep and the next test of the while condition. When process_frame
\* (or the resize after it) raises, the except clause breaks out of the loop.
VsLoopFrame(j) ==
  /\ vsLoop[j] = "read"
  /\ vsCap[vsLoopSrc[j]] = "open"
  /\ LET count == vsFrames[j] + 1 IN
     /\ vsFrames' = SetAt(vsFrames, j, count % (SkipFrames + 1))
     /\ IF ~should_skip_frame(count, SkipFrames)
          THEN \E outcome \in {"ok", "raises"} :
                 IF outcome = "raises"
                   THEN /\ VsLoopEnds(j, "ended_exc")
                        /\ UNCHANGED <<vs_latest, pipeDirty>>
                   ELSE /\ pipeDirty' = TRUE
                        /\ vs_latest' = "processed"
                        /\ VsLoopTest(j)
          ELSE /\ vs_latest' = IF vs_latest = "none" THEN "raw" ELSE vs_latest
               /\ UNCHANGED pipeDirty
               /\ VsLoopTest(j)
  /\ UNCHANGED <<vs_current_source, vs_stream_thread,
                 vsPc, vsCont, vsStarts, vsRet, vsCap>>
  /\ UNCHANGED <<multiVars, service, otherVars>>

\* ============== RobustCameraManager.test_camera_with_multiple_strategies
\* One call, followed on its own: the caller walks the list of strategies;
\* each strategy's test_worker runs in a thread of its own and may stay in a
\* native open or read call for ever ("running").
\* What a test_worker ends as:
\*   "passed"   the device opened and a frame was read: result[0] = True
\*   "no_frame" the device opened and no frame was read: result[0] stays False
\*   "raised"   the device did not open, or a call raised: exception[0] is set
TestWorkerEnds == {"passed", "no_frame", "raised"}

\* thread.join(timeout=timeout) of _test_with_backend can return: the worker
\* has ended, or the timeout has run out, which it does whatever the worker
\* is doing.
TestJoinWaitsForWorker(w) == w \in TestWorkerEnds

TestJoinMayReturn(w) == w \in TestWorkerEnds \/ w = "running"

\* The success flag _test_with_backend returns after the join: False for a
\* worker still alive, False when exception[0] is set, result[0] otherwise.
TestResult(alive, w) ==
  IF alive THEN FALSE
  ELSE IF w = "raised" THEN FALSE
  ELSE w = "passed"

\* The loop goes on with the next strategy, or the list is exhausted and
\* (False, "All strategies failed") is returned.
TsMoveOn(i) ==
  IF AfterFailedStrategy(i) = "test"
    THEN /\ tsPc' = "loop"
         /\ UNCHANGED tsRet
    ELSE /\ tsPc' = "returned"
         /\ tsRet' = [ok |-> "false", strategy |-> 0]

\* test_camera_with_multiple_strategies is called.
TsCall ==
  /\ service = "strategies"
  /\ tsPc = "idle"
  /\ tsPc' = "loop"
  /\ UNCHANGED <<tsIdx, tsWorker, tsCounted, tsRet>>
  /\ UNCHANGED <<multiVars, service, vsVars, plVars, clVars, rcVars, extraVars>>

\* The next strategy function is called: its worker thread is started and
\* the caller enters the join; a call that raises instead is caught by the
\* loop body and the loop goes on.
TsStartWorker ==
  /\ tsPc = "loop"
  /\ LET i == tsIdx + 1 IN
     /\ tsIdx' = i
     /\ \E raises \in BOOLEAN :
          IF raises
            THEN /\ tsCounted' = SetAt(tsCounted, i, "failure")
                 /\ TsMoveOn(i)
                 /\ UNCHANGED tsWorker
            ELSE /\ tsWorker' = SetAt(tsWorker, i, "running")
                 /\ tsPc' = "join"
                 /\ UNCHANGED <<tsCounted, tsRet>>
  /\ UNCHANGED <<multiVars, service, vsVars, plVars, clVars, rcVars, extraVars>>

\* The join returns: a worker still alive is a timeout of the strategy, and
\* is left behind; the first strategy that succeeds is returned with True.
TsJoin ==
  /\ tsPc = "join"
  /\ LET i == tsIdx
         w == tsWorker[i]
         alive == w = "running"
     IN
     /\ TestJoinMayReturn(w)
     /\ IF TestResult(alive, w)
          THEN /\ tsCounted' = SetAt(tsCounted, i, "success")
               /\ tsPc' = "returned"
               /\ tsRet' = [ok |-> "true", strategy |-> i]
          ELSE /\ tsCounted' = SetAt(tsCounted, i,
                                 IF alive THEN "timeout" ELSE "failure")
               /\ TsMoveOn(i)
  /\ UNCHANGED <<tsIdx, tsWorker>>
  /\ UNCHANGED <<multiVars, service, vsVars, plVars, clVars, rcVars, extraVars>>

\* The native calls of a test_worker return and the worker ends.
TsWorkerEnds(i) ==
  /\ tsWorker[i] = "running"
  /\ \E e \in TestWorkerEnds : tsWorker' = SetAt(tsWorker, i, e)
  /\ UNCHANGED <<tsPc, tsIdx, tsCounted, tsRet>>
  /\ UNCHANGED <<multiVars, service, vsVars, plVars, clVars, rcVars, extraVars>>

\* ======================================================= AttentionPipeline
\* The tracker (services.tracker.PersonTracker) and the classifier
\* (services.head_pose.HeadPoseEstimator) are followed as spec.md 4.1 and 4.2
\* describe them; the order in which process_frame and reset call them is the
\* pipeline's. This part follows the identities: which ids have a Track,
\* and which ids the classifier holds state for. What that state is, for one
\* identity, is followed in the classifier part below.

Min2(a, b) == IF a <= b THEN a ELSE b
Max2(a, b) == IF a >= b THEN a ELSE b

\* intersection and union of two boxes
Inter(a, b) == Max2(0, Min2(a.x2, b.x2) - Max2(a.x1, b.x1))
Union(a, b) == (a.x2 - a.x1) + (b.x2 - b.x1) - Inter(a, b)

\* IoU(a, b) >= iou_threshold
IouAtLeastThreshold(a, b) == 100 * Inter(a, b) >= IouThresholdPct * Union(a, b)

\* IoU(a, b) > IoU(c, d)
IouGreater(a, b, c, d) == Inter(a, b) * Union(c, d) > Inter(c, d) * Union(a, b)

\* the ids that have a Track
LiveIds == {i \in Ids : tkBox[i] # NoBox}

\* (a tracker that takes the candidate pairs in ascending order of IoU)
PairBeforeAscending(dets, p, q) ==
  \/ IouGreater(tkBox[q[1]], dets[q[2]].box, tkBox[p[1]], dets[p[2]].box)
  \/ /\ ~IouGreater(tkBox[p[1]], dets[p[2]].box, tkBox[q[1]], dets[q[2]].box)
     /\ \/ p[1] < q[1]
        \/ p[1] = q[1] /\ p[2] < q[2]

\* Candidate pair p = <<track id, detection>> comes before q in the
\* tracker's order: descending IoU, ties by the lower track id.
PairBefore(dets, p, q) ==
  \/ IouGreater(tkBox[p[1]], dets[p[2]].box, tkBox[q[1]], dets[q[2]].box)
  \/ /\ ~IouGreater(tkBox[q[1]], dets[q[2]].box, tkBox[p[1]], dets[p[2]].box)
     /\ \/ p[1] < q[1]
        \/ p[1] = q[1] /\ p[2] < q[2]

\* Greedy matching: take the first candidate pair, drop the pairs that share
\* its track or its detection, go on with the rest.
RECURSIVE GreedyMatch(_, _)
GreedyMatch(dets, pairs) ==
  IF pairs = {} THEN {}
  ELSE LET best == CHOOSE p \in pairs :
                     \A q \in pairs \ {p} : PairBefore(dets, p, q)
       IN  {best} \cup GreedyMatch(dets,
                         {q \in pairs : q[1] # best[1] /\ q[2] # best[2]})

\* (a tracker that retires a Track one update earlier)
RetiresAtThreshold(m) == m >= MaxDisappeared
\* An unmatched Track whose miss counter has become m is retired.
Retires(m) == m > MaxDisappeared

\* tracker.update(detections): the matching, the id of every detection, the
\* Tracks afterwards, and the ids retired by this update.
TrackerUpdate(dets) ==
  LET cand == {p \in LiveIds \X DOMAIN dets :
                 IouAtLeastThreshold(tkBox[p[1]], dets[p[2]].box)}
      M == GreedyMatch(dets, cand)
      matchedIds == {p[1] : p \in M}
      matchedDets == {p[2] : p \in M}
      newDets == DOMAIN dets \ matchedDets
      idOf(d) == IF d \in matchedDets
                 THEN (CHOOSE i \in matchedIds : <<i, d>> \in M)
                 ELSE next_id + Cardinality({e \in newDets : e < d})
      retired == {i \in LiveIds \ matchedIds : Retires(tkMiss[i] + 1)}
      detOf(i) == CHOOSE d \in DOMAIN dets : idOf(d) = i
      given == {idOf(d) : d \in DOMAIN dets}
  IN  [ids      |-> [d \in DOMAIN dets |-> idOf(d)],
       next     |-> next_id + Cardinality(newDets),
       retired  |-> retired,
       box      |-> [i \in Ids |->
                       IF i \in given THEN dets[detOf(i)].box
                       ELSE IF i \in retired THEN NoBox
                       ELSE tkBox[i]],
       miss     |-> [i \in Ids |->
                       IF i \in given \/ i \in retired \/ i \notin LiveIds THEN 0
                       ELSE tkMiss[i] + 1]]

\* (a process_frame without the loop over the disappeared ids)
ClearRetiredSkipped(hist, retired) == hist
\* for track_id in disappeared_track_ids: clear_history(track_id)
ClearRetired(hist, retired) == hist \ retired

\* (a reset without the call of clear_history)
ClearAllHistorySkipped(hist) == hist
\* head_pose_estimator.clear_history(): the state of every id is dropped
ClearAllHistory(hist) == {}

\* pipeline.frame_count: 0 after reset, then 1, 2, 1, 2, ...
NextFrameCount(n) == IF n = 2 THEN 1 ELSE n + 1

\* process_frame(frame): the detector finds dets in the frame. Step 3 updates
\* the tracker, the histories of the retired ids are cleared, and Step 4
\* smooths every tracked detection that has a face under its id, which
\* gives the id state in the classifier; a detection without a face only
\* reads the state of its id.
ProcessFrame(dets) ==
  /\ service \in {"pipeline", "shared"}
  /\ LET u == TrackerUpdate(dets)
         smoothed == {u.ids[d] : d \in {e \in DOMAIN dets : dets[e].face}}
     IN  /\ u.next <= MaxIds + 1
         /\ next_id' = u.next
         /\ tkBox' = u.box
         /\ tkMiss' = u.miss
         /\ tkDisappeared' = u.retired
         /\ clearedIds' = histIds \ ClearRetired(histIds, u.retired)
         /\ histIds' = ClearRetired(histIds, u.retired) \cup smoothed
         /\ lastDets' = [d \in DOMAIN dets |-> dets[d].box]
         /\ lastIds' = u.ids
  /\ plFrameCount' = NextFrameCount(plFrameCount)
  /\ UNCHANGED <<multiVars, service, vsVars, tsVars, clVars, rcVars, extraVars>>

\* reset(): tracker.reset(), head_pose_estimator.clear_history(),
\* frame_count = 0, recent_stats = []
PipelineResets ==
  /\ next_id' = 1
  /\ tkBox' = [i \in Ids |-> NoBox]
  /\ tkMiss' = [i \in Ids |-> 0]
  /\ tkDisappeared' = {}
  /\ histIds' = ClearAllHistory(histIds)
  /\ clearedIds' = {}
  /\ plFrameCount' = 0
  /\ lastDets' = <<>>
  /\ lastIds' = <<>>

\* reset() called on the pipeline by itself.
PipelineReset ==
  /\ service = "pipeline"
  /\ PipelineResets
  /\ UNCHANGED <<multiVars, service, vsVars, tsVars, clVars, rcVars, extraVars>>

\* ------------------------------------- the classifier's state of one id
\* What process_frame and reset do to one identity: the frames in which the
\* tracker returns a detection under its id, the frames in which its Track
\* is unmatched, the frame that retires it, and reset. The tracker's side of
\* the identity is clTrack.

RECURSIVE SumYaw(_), SumPitch(_)
SumYaw(h) == IF h = <<>> THEN 0 ELSE Head(h).yaw + SumYaw(Tail(h))
SumPitch(h) == IF h = <<>> THEN 0 ELSE Head(h).pitch + SumPitch(Tail(h))

\* the last n entries of a sequence
LastN(q, n) == IF Len(q) <= n THEN q ELSE SubSeq(q, Len(q) - n + 1, Len(q))

\* smooth_pose(id, yaw, pitch): append to the bounded history, return the
\* average of the history
SmoothPose(hist, p) ==
  LET h == LastN(Append(hist, p), MaxHistory)
  IN  [hist |-> h,
       pose |-> [yaw |-> SumYaw(h) \div Len(h), pitch |-> SumPitch(h) \div Len(h)]]

\* get_last_known_pose(id): the last sample of the history, (0.0, 0.0) without one
LastKnownPose(hist) == IF hist = <<>> THEN ZeroPose ELSE hist[Len(hist)]

\* classify_attention(yaw, pitch): the band of an angle pair
Band(p) ==
  LET outYaw == p.yaw > YawThreshold \/ p.yaw < 0 - YawThreshold
      outPitch == p.pitch > PitchThreshold \/ p.pitch < 0 - PitchThreshold
  IN  IF ~outYaw /\ ~outPitch THEN "green"
      ELSE IF outYaw /\ outPitch THEN "red"
      ELSE "yellow"

\* a changed status seen for n consecutive frames is committed
Commits(n) == n >= HysteresisFrames

\* classify_attention(yaw, pitch, id), raw being the band of (yaw, pitch):
\* the first status of an id is committed as it comes; afterwards a different
\* status is committed once it has lasted HysteresisFrames frames, and until
\* then the committed one is returned.
ClassifyAttention(hy, raw) ==
  IF hy.committed = "none" \/ raw = hy.committed
  THEN [hy |-> [committed |-> raw, candidate |-> "none", streak |-> 0],
        status |-> raw]
  ELSE LET n == IF raw = hy.candidate THEN hy.streak + 1 ELSE 1
       IN  IF Commits(n)
           THEN [hy |-> [committed |-> raw, candidate |-> "none", streak |-> 0],
                 status |-> raw]
           ELSE [hy |-> [committed |-> hy.committed, candidate |-> raw, streak |-> n],
                 status |-> hy.committed]

\* get_attention_confidence(id): the current streak (of HysteresisFrames),
\* the default for an id without state
NeutralConfidence == 0
AttentionConfidence(hy) ==
  IF hy = EmptyHyst THEN NeutralConfidence ELSE hy.streak

\* clear_history(id): the id's pose history and hysteresis state are dropped
ClearHistoryOf(st) == [hist |-> <<>>, hy |-> EmptyHyst]

\* (a process_frame that classifies without the person id)
ClassifyWithoutId(hy, raw) == [hy |-> hy, status |-> raw]
\* process_frame classifies a tracked detection under its person id
ClassifyTracked(hy, raw) == ClassifyAttention(hy, raw)

\* (a process_frame without the loop over the disappeared ids)
PurgeRetiredSkipped(st) == st
\* for track_id in disappeared_track_ids: clear_history(track_id), for this id
PurgeRetired(st) == ClearHistoryOf(st)

\* the classifier's state of the id
ClState == [hist |-> clHist, hy |-> clHyst]

\* The frame has a detection of the identity with a face: Step 4 smooths the
\* pose under the id and classifies the smoothed pose under the id.
ClFrameFace(p) ==
  /\ service = "classifier"
  /\ clTrack \in {"unused", "tracked"}
  /\ LET sm == SmoothPose(clHist, p)
         raw == Band(sm.pose)
         c == ClassifyTracked(clHyst, raw)
     IN  /\ clHist' = sm.hist
         /\ clHyst' = c.hy
         /\ clRawLog' = LastN(Append(clRawLog, raw), HysteresisFrames)
         /\ clOut' = [face |-> TRUE, in |-> p, pose |-> sm.pose,
                      status |-> c.status, raw |-> raw, was |-> clHyst.committed]
  /\ clTrack' = "tracked"
  /\ clCleared' = FALSE
  /\ UNCHANGED <<multiVars, service, vsVars, tsVars, plVars, rcVars, extraVars>>

\* The frame has a detection of the identity without a face: the last known
\* pose of the id is classified in its place, unless it is (0.0, 0.0).
ClFrameNoFace ==
  /\ service = "classifier"
  /\ clTrack \in {"unused", "tracked"}
  /\ LET last == LastKnownPose(clHist)
         raw == Band(last)
         c == ClassifyTracked(clHyst, raw)
     IN  IF last.yaw # 0 \/ last.pitch # 0
         THEN /\ clHyst' = c.hy
              /\ clRawLog' = LastN(Append(clRawLog, raw), HysteresisFrames)
              /\ clOut' = [face |-> FALSE, in |-> ZeroPose, pose |-> last,
                           status |-> c.status, raw |-> raw, was |-> clHyst.committed]
         ELSE /\ clOut' = [face |-> FALSE, in |-> ZeroPose, pose |-> ZeroPose,
                           status |-> "No face detected", raw |-> "none",
                           was |-> clHyst.committed]
              /\ UNCHANGED <<clHyst, clRawLog>>
  /\ clTrack' = "tracked"
  /\ clCleared' = FALSE
  /\ UNCHANGED clHist
  /\ UNCHANGED <<multiVars, service, vsVars, tsVars, plVars, rcVars, extraVars>>

\* The frame has no detection for the identity's Track, which stays.
ClFrameMissed ==
  /\ service = "classifier"
  /\ clTrack = "tracked"
  /\ clOut' = NoOutput
  /\ clCleared' = FALSE
  /\ UNCHANGED <<clTrack, clHist, clHyst, clRawLog>>
  /\ UNCHANGED <<multiVars, service, vsVars, tsVars, plVars, rcVars, extraVars>>

\* The frame's update retires the identity's Track: its id is among the
\* disappeared ids and its history is cleared.
ClFrameRetired ==
  /\ service = "classifier"
  /\ clTrack = "tracked"
  /\ clTrack' = "retired"
  /\ clHist' = PurgeRetired(ClState).hist
  /\ clHyst' = PurgeRetired(ClState).hy
  /\ clRawLog' = IF PurgeRetired(ClState) = ClState THEN clRawLog ELSE <<>>
  /\ clCleared' = (PurgeRetired(ClState) # ClState)
  /\ clOut' = NoOutput
  /\ UNCHANGED <<multiVars, service, vsVars, tsVars, plVars, rcVars, extraVars>>

\* reset(): the tracker forgets its Tracks and ids, the classifier every history
ClReset ==
  /\ service = "classifier"
  /\ clTrack' = "unused"
  /\ clHist' = <<>>
  /\ clHyst' = EmptyHyst
  /\ clRawLog' = <<>>
  /\ clCleared' = (ClState # ClearHistoryOf(ClState))
  /\ clOut' = NoOutput
  /\ UNCHANGED <<multiVars, service, vsVars, tsVars, plVars, rcVars, extraVars>>

\* ===================================================== multi-camera recording
\* The recorder (services.video_recorder.MultiCameraVideoRecorder) is followed
\* as spec.md 4.6 describes it. A camera's session is followed only as far
\* as recording sees it: whether its processor runs, whether it is in the
\* registry, and whether it has a latest_frame.

\* isolated_manager.get_active_cameras(): the cameras whose processor runs
ActiveCameras == {c \in Cams : rcCam[c] # "off"}

\* the registry entries whose latest_frame is not None
FramesInRegistry == {c \in Cams : rcCam[c] = "frame"}

\* get_active_recordings()
ActiveRecordings == {r \in RecIds : rec[r] = "active"}

\* a return of the recording API
RcReturns(op, r, ret, at) ==
  rcRet' = [n |-> 1 - rcRet.n, op |-> op, id |-> r, ret |-> ret, at |-> at]

\* (a start_recording that goes to the recorder whatever it gathered)
HasSampleFramesUnchecked(sample) == TRUE
\* if not sample_frames: return False
HasSampleFrames(sample) == sample # {}

\* start_multi_camera_recording(recording_id, sample_frames, ...): fails
\* without a sample frame
RecorderStarts(sample) == sample # {}

\* (a stop that finalizes every active recording)
StopRecordingStopsAll(r) ==
  [q \in RecIds |-> IF rec[q] = "active" THEN "stopped" ELSE rec[q]]
\* stop_recording(recording_id), delegated to the recorder: the recordings after it
StopRecordingState(r) ==
  [rec EXCEPT ![r] = IF rec[r] = "active" THEN "stopped" ELSE rec[r]]

\* stream_lock is free: no start_camera_stream is between starting the
\* processor and registering the session, which it does under the lock
RcStreamLockFree == \A c \in Cams : rcCam[c] # "starting"

\* start_camera_stream has started the camera's processor ...
RcCamStarts(c) ==
  /\ service = "recording"
  /\ RcStreamLockFree
  /\ rcCam[c] = "off"
  /\ rcCam' = [rcCam EXCEPT ![c] = "starting"]
  /\ UNCHANGED <<rcGen, rec, recHas, recPending, recMissed, recWrites, rcPc, rcId, rcRet, vrVars>>
  /\ UNCHANGED <<multiVars, service, vsVars, tsVars, plVars, clVars, extraVars>>

\* ... and has put the session into the registry, latest_frame None
RcCamRegisters(c) ==
  /\ service = "recording"
  /\ rcCam[c] = "starting"
  /\ rcCam' = [rcCam EXCEPT ![c] = "no_frame"]
  /\ UNCHANGED <<rcGen, rec, recHas, recPending, recMissed, recWrites, rcPc, rcId, rcRet, vrVars>>
  /\ UNCHANGED <<multiVars, service, vsVars, tsVars, plVars, clVars, extraVars>>

\* _camera_stream_loop publishes a frame: latest_frame and latest_stats are
\* replaced. Nothing is written to a recording here.
RcPublish(c) ==
  /\ service = "recording"
  /\ rcCam[c] \in {"no_frame", "frame"}
  /\ rcCam' = [rcCam EXCEPT ![c] = "frame"]
  /\ recMissed' = [r \in RecIds |->
                     recMissed[r] \/ (rec[r] = "active" /\ c \in recPending[r])]
  /\ recPending' = [r \in RecIds |->
                      IF rec[r] = "active" THEN recPending[r] \cup {c}
                      ELSE recPending[r]]
  /\ recWrites' = [r \in RecIds |-> {}]
  /\ UNCHANGED <<rcGen, rec, recHas, rcPc, rcId, rcRet, vrVars>>
  /\ UNCHANGED <<multiVars, service, vsVars, tsVars, plVars, clVars, extraVars>>

\* stop_camera_stream: the session leaves the registry, its processor stops
RcCamStops(c) ==
  /\ service = "recording"
  /\ RcStreamLockFree
  /\ rcCam[c] \in {"no_frame", "frame"}
  /\ rcCam' = [rcCam EXCEPT ![c] = "off"]
  /\ recMissed' = [r \in RecIds |-> recMissed[r] \/ c \in recPending[r]]
  /\ recPending' = [r \in RecIds |-> recPending[r] \ {c}]
  /\ recWrites' = [r \in RecIds |-> IF rcCam[c] = "frame" THEN {} ELSE recWrites[r]]
  /\ UNCHANGED <<rcGen, rec, recHas, rcPc, rcId, rcRet, vrVars>>
  /\ UNCHANGED <<multiVars, service, vsVars, tsVars, plVars, clVars, extraVars>>

\* A client requests the combined stream: the response iterates the generator.
RcClientConnects(g) ==
  /\ service = "recording"
  /\ g \notin rcGen
  /\ rcGen' = rcGen \cup {g}
  /\ UNCHANGED <<rcCam, rec, recHas, recPending, recMissed, recWrites, rcPc, rcId, rcRet, vrVars>>
  /\ UNCHANGED <<multiVars, service, vsVars, tsVars, plVars, clVars, extraVars>>

\* The client goes away: its generator is not iterated any more.
RcClientLeaves(g) ==
  /\ service = "recording"
  /\ g \in rcGen
  /\ rcGen' = rcGen \ {g}
  /\ UNCHANGED <<rcCam, rec, recHas, recPending, recMissed, recWrites, rcPc, rcId, rcRet, vrVars>>
  /\ UNCHANGED <<multiVars, service, vsVars, tsVars, plVars, clVars, extraVars>>

\* One round of get_multi_camera_mjpeg_generator for consumer g: the latest
\* frames of the registry are gathered and, if there are any, written to
\* every active recording before the combined frame is yielded.
RcGenRound(g) ==
  /\ service = "recording"
  /\ RcStreamLockFree
  /\ g \in rcGen
  /\ LET camera_frames == FramesInRegistry
     IN  IF camera_frames # {}
         THEN /\ recHas' = [r \in RecIds |->
                              IF r \in ActiveRecordings
                              THEN recHas[r] \cup camera_frames ELSE recHas[r]]
              /\ recPending' = [r \in RecIds |->
                                  IF r \in ActiveRecordings
                                  THEN recPending[r] \ camera_frames
                                  ELSE recPending[r]]
              /\ recWrites' = [r \in RecIds |->
                                 IF r \in ActiveRecordings
                                 THEN recWrites[r] \cup {g} ELSE recWrites[r]]
         ELSE UNCHANGED <<recHas, recPending, recWrites>>
  /\ UNCHANGED <<rcCam, rcGen, rec, recMissed, rcPc, rcId, rcRet, vrVars>>
  /\ UNCHANGED <<multiVars, service, vsVars, tsVars, plVars, clVars, extraVars>>

\* start_recording(recording_id), up to the test of get_active_cameras()
RcStartRecording(r) ==
  /\ service = "recording"
  /\ rcPc = "idle"
  /\ rec[r] = "none"
  /\ IF ActiveCameras = {}
     THEN /\ RcReturns("start", r, "False", "no_cameras")
          /\ UNCHANGED <<rcPc, rcId>>
     ELSE /\ rcPc' = "gather"
          /\ rcId' = r
          /\ UNCHANGED rcRet
  /\ UNCHANGED <<rcCam, rcGen, rec, recHas, recPending, recMissed, recWrites, vrVars>>
  /\ UNCHANGED <<multiVars, service, vsVars, tsVars, plVars, clVars, extraVars>>

\* start_recording: the sample frames are gathered from the registry under
\* stream_lock; without one the call returns False, else it goes to the recorder.
RcStartGather ==
  /\ service = "recording"
  /\ RcStreamLockFree
  /\ rcPc = "gather"
  /\ LET sample_frames == FramesInRegistry
     IN  IF HasSampleFrames(sample_frames)
         THEN IF RecorderStarts(sample_frames)
              THEN /\ rec' = [rec EXCEPT ![rcId] = "active"]
                   /\ RcReturns("start", rcId, "True", "recorder")
              ELSE /\ RcReturns("start", rcId, "False", "recorder")
                   /\ UNCHANGED rec
         ELSE /\ RcReturns("start", rcId, "False", "no_frames")
              /\ UNCHANGED rec
  /\ rcPc' = "idle"
  /\ rcId' = NoRecording
  /\ UNCHANGED <<rcCam, rcGen, recHas, recPending, recMissed, recWrites, vrVars>>
  /\ UNCHANGED <<multiVars, service, vsVars, tsVars, plVars, clVars, extraVars>>

\* stop_recording(recording_id): the recorder finalizes an active recording
\* and returns its summary, and returns None for any other id
RcStopRecording(r) ==
  /\ service = "recording"
  /\ rec' = StopRecordingState(r)
  /\ RcReturns("stop", r, IF rec[r] = "active" THEN "summary" ELSE "None", "recorder")
  /\ recMissed' = [q \in RecIds |->
                     recMissed[q] \/ (rec[q] # rec'[q] /\ recPending[q] # {})]
  /\ recPending' = [q \in RecIds |-> IF rec[q] # rec'[q] THEN {} ELSE recPending[q]]
  /\ recWrites' = [q \in RecIds |-> IF rec[q] # rec'[q] THEN {} ELSE recWrites[q]]
  /\ UNCHANGED <<rcCam, rcGen, recHas, rcPc, rcId, vrVars>>
  /\ UNCHANGED <<multiVars, service, vsVars, tsVars, plVars, clVars, extraVars>>

\* write_recording_frame(recording_id, camera_frames, stats) called with
\* frames of the caller's: the recorder appends to an active recording and
\* returns False for any other id
RcWriteRecordingFrame(r, camera_frames) ==
  /\ service = "recording"
  /\ IF rec[r] = "active"
     THEN /\ recHas' = [recHas EXCEPT ![r] = @ \cup camera_frames]
          /\ RcReturns("write", r, "True", "recorder")
     ELSE /\ RcReturns("write", r, "False", "recorder")
          /\ UNCHANGED recHas
  /\ UNCHANGED <<rcCam, rcGen, rec, recPending, recMissed, recWrites, rcPc, rcId, vrVars>>
  /\ UNCHANGED <<multiVars, service, vsVars, tsVars, plVars, clVars, extraVars>>

\* ------------------------------------------ recording of the single stream
\* The recorder (services.video_recorder.VideoRecorder) is followed as
\* spec.md 4.6 describes it; the streamer's session is followed only by its
\* is_streaming flag.

\* start_stream has set is_streaming
VrStreamStarts ==
  /\ service = "single_recording"
  /\ ~vrStreaming
  /\ vrStreaming' = TRUE
  /\ UNCHANGED <<mrVars, vsRec, rcRet>>
  /\ UNCHANGED <<multiVars, service, vsVars, tsVars, plVars, clVars, extraVars>>

\* stop_stream, or the loop as it ends, has cleared is_streaming
VrStreamEnds ==
  /\ service = "single_recording"
  /\ vrStreaming
  /\ vrStreaming' = FALSE
  /\ UNCHANGED <<mrVars, vsRec, rcRet>>
  /\ UNCHANGED <<multiVars, service, vsVars, tsVars, plVars, clVars, extraVars>>

\* VideoStreamer.stop_recording(recording_id), delegated to the recorder: the
\* recordings after it
VsStopRecordingState(r) ==
  [vsRec EXCEPT ![r] = IF vsRec[r] = "active" THEN "stopped" ELSE vsRec[r]]

\* VideoStreamer.start_recording(recording_id, ...)
VsStartRecording(r) ==
  /\ service = "single_recording"
  /\ vsRec[r] = "none"
  /\ IF ~vrStreaming
     THEN /\ RcReturns("start", r, "False", "not_streaming")
          /\ UNCHANGED vsRec
     ELSE /\ vsRec' = [vsRec EXCEPT ![r] = "active"]
          /\ RcReturns("start", r, "True", "recorder")
  /\ UNCHANGED <<mrVars, vrStreaming>>
  /\ UNCHANGED <<multiVars, service, vsVars, tsVars, plVars, clVars, extraVars>>

\* VideoStreamer.stop_recording(recording_id)
VsStopRecording(r) ==
  /\ service = "single_recording"
  /\ vsRec' = VsStopRecordingState(r)
  /\ RcReturns("stop", r, IF vsRec[r] = "active" THEN "summary" ELSE "None", "recorder")
  /\ UNCHANGED <<mrVars, vrStreaming>>
  /\ UNCHANGED <<multiVars, service, vsVars, tsVars, plVars, clVars, extraVars>>

\* VideoStreamer.write_recording_frame(recording_id, frame, stats)
VsWriteRecordingFrame(r) ==
  /\ service = "single_recording"
  /\ RcReturns("write", r, IF vsRec[r] = "active" THEN "True" ELSE "False", "recorder")
  /\ UNCHANGED <<mrVars, vrStreaming, vsRec>>
  /\ UNCHANGED <<multiVars, service, vsVars, tsVars, plVars, clVars, extraVars>>

\* ============================================== the latest slot of a session
\* One session's latest_frame / latest_stats and the frame_lock that guards
\* them, with the threads that take the lock: the session's loop thread, one
\* consumer of the MJPEG generator, and a thread in get_latest_stats(). A
\* generator runs inside its consumer's next() calls, from one yield to the
\* next; at a yield it stays suspended until the consumer asks for the next
\* frame or closes it. The session is the VideoStreamer's ("vs_frames") or
\* one of the MultiCameraStreamer's ("mc_frames").

\* everything but the variables of this part
notFVars == <<multiVars, service, vsVars, tsVars, plVars, clVars, rcVars, wkVars, seVars, lkVars>>

\* ---------------------------------------------------------- VideoStreamer
\* start_stream has set is_streaming and started the loop thread
VfStreamStarts ==
  /\ service = "vs_frames"
  /\ ~fStreaming
  /\ fLoop \in {"none", "ended"}
  /\ fStreaming' = TRUE
  /\ fLoop' = "read"
  /\ UNCHANGED <<frame_lock, fGen, fStats, fLatest, fRec>>
  /\ UNCHANGED notFVars

\* stop_stream: self.is_streaming = False
VfStreamStops ==
  /\ service = "vs_frames"
  /\ fStreaming
  /\ fStreaming' = FALSE
  /\ UNCHANGED <<frame_lock, fLoop, fGen, fStats, fLatest, fRec>>
  /\ UNCHANGED notFVars

\* _stream_loop: read() gives a frame; a frame that is not skipped goes
\* through the pipeline, a skipped one asks for the lock to copy the previous
\* frame out
VfLoopRead ==
  /\ service = "vs_frames"
  /\ fLoop = "read"
  /\ \E skipped \in BOOLEAN :
       fLoop' = IF skipped THEN "want_prev" ELSE "want_publish"
  /\ UNCHANGED <<frame_lock, fGen, fStats, fLatest, fRec, fStreaming>>
  /\ UNCHANGED notFVars

\* _stream_loop: read() gives no frame, or the body raises: the loop is left
VfLoopFails ==
  /\ service = "vs_frames"
  /\ fLoop = "read"
  /\ fLoop' = "ended"
  /\ fStreaming' = FALSE
  /\ UNCHANGED <<frame_lock, fGen, fStats, fLatest, fRec>>
  /\ UNCHANGED notFVars

\* `with self.frame_lock:` of the skipped branch is entered ...
VfLoopTakePrev ==
  /\ service = "vs_frames"
  /\ fLoop = "want_prev"
  /\ frame_lock = "free"
  /\ frame_lock' = "loop"
  /\ fLoop' = "in_prev"
  /\ UNCHANGED <<fGen, fStats, fLatest, fRec, fStreaming>>
  /\ UNCHANGED notFVars

\* ... and left, the previous frame and stats copied
VfLoopLeavePrev ==
  /\ service = "vs_frames"
  /\ fLoop = "in_prev"
  /\ frame_lock' = "free"
  /\ fLoop' = "want_publish"
  /\ UNCHANGED <<fGen, fStats, fLatest, fRec, fStreaming>>
  /\ UNCHANGED notFVars

\* `with self.frame_lock:` of the publish step is entered ...
VfLoopTakePublish ==
  /\ service = "vs_frames"
  /\ fLoop = "want_publish"
  /\ frame_lock = "free"
  /\ frame_lock' = "loop"
  /\ fLoop' = "in_publish"
  /\ UNCHANGED <<fGen, fStats, fLatest, fRec, fStreaming>>
  /\ UNCHANGED notFVars

\* ... latest_frame and latest_stats are replaced and the lock is given up;
\* the pacing sleep and the next test of the while condition follow
VfLoopPublish ==
  /\ service = "vs_frames"
  /\ fLoop = "in_publish"
  /\ fLatest' = TRUE
  /\ frame_lock' = "free"
  /\ fLoop' = IF fStreaming THEN "read" ELSE "ended"
  /\ UNCHANGED <<fGen, fStats, fRec, fStreaming>>
  /\ UNCHANGED notFVars

\* a client requests the stream: the response iterates get_mjpeg_generator()
VfClientConnects ==
  /\ service = "vs_frames"
  /\ fGen = "none"
  /\ fGen' = "top"
  /\ UNCHANGED <<frame_lock, fLoop, fStats, fLatest, fRec, fStreaming>>
  /\ UNCHANGED notFVars

\* get_mjpeg_generator: `while self.is_streaming`
VfGenTop ==
  /\ service = "vs_frames"
  /\ fGen = "top"
  /\ fGen' = IF fStreaming THEN "want_lock" ELSE "none"
  /\ UNCHANGED <<frame_lock, fLoop, fStats, fLatest, fRec, fStreaming>>
  /\ UNCHANGED notFVars

\* get_mjpeg_generator: `with self.frame_lock:` is entered and latest_frame
\* is tested; without a frame the block is left at once
VfGenTake ==
  /\ service = "vs_frames"
  /\ fGen = "want_lock"
  /\ frame_lock = "free"
  /\ frame_lock' = IF fLatest THEN "gen" ELSE "free"
  /\ fGen' = IF fLatest THEN "write" ELSE "sleep"
  /\ UNCHANGED <<fLoop, fStats, fLatest, fRec, fStreaming>>
  /\ UNCHANGED notFVars

\* get_mjpeg_generator: write_recording_frame for every active recording
VfGenWrite ==
  /\ service = "vs_frames"
  /\ fGen = "write"
  /\ fGen' = "encode"
  /\ UNCHANGED <<frame_lock, fLoop, fStats, fLatest, fRec, fStreaming>>
  /\ UNCHANGED notFVars

\* get_mjpeg_generator: cv2.imencode; an encoded frame is yielded, still
\* inside the with block, and otherwise the block is left
VfGenEncode ==
  /\ service = "vs_frames"
  /\ fGen = "encode"
  /\ \E ret \in BOOLEAN :
       IF ret
       THEN /\ fGen' = "yielded"
            /\ UNCHANGED frame_lock
       ELSE /\ fGen' = "sleep"
            /\ frame_lock' = "free"
  /\ UNCHANGED <<fLoop, fStats, fLatest, fRec, fStreaming>>
  /\ UNCHANGED notFVars

\* the consumer asks for the next frame: the generator resumes after the
\* yield and leaves the with block
VfConsumerNext ==
  /\ service = "vs_frames"
  /\ fGen = "yielded"
  /\ fGen' = "sleep"
  /\ frame_lock' = "free"
  /\ UNCHANGED <<fLoop, fStats, fLatest, fRec, fStreaming>>
  /\ UNCHANGED notFVars

\* the consumer closes the generator at its yield: the with block is left
VfConsumerCloses ==
  /\ service = "vs_frames"
  /\ fGen = "yielded"
  /\ fGen' = "none"
  /\ frame_lock' = "free"
  /\ UNCHANGED <<fLoop, fStats, fLatest, fRec, fStreaming>>
  /\ UNCHANGED notFVars

\* get_mjpeg_generator: time.sleep(1.0 / max_fps), back to the while test
VfGenSleep ==
  /\ service = "vs_frames"
  /\ fGen = "sleep"
  /\ fGen' = "top"
  /\ UNCHANGED <<frame_lock, fLoop, fStats, fLatest, fRec, fStreaming>>
  /\ UNCHANGED notFVars

\* get_latest_stats() is called and reaches `with self.frame_lock` ...
VfStatsCall ==
  /\ service = "vs_frames"
  /\ fStats = "idle"
  /\ fStats' = "want"
  /\ UNCHANGED <<frame_lock, fLoop, fGen, fLatest, fRec, fStreaming>>
  /\ UNCHANGED notFVars

\* ... takes the lock, copies latest_stats, gives the lock up and returns
VfStatsCopy ==
  /\ service = "vs_frames"
  /\ fStats = "want"
  /\ frame_lock = "free"
  /\ fStats' = "idle"
  /\ UNCHANGED <<frame_lock, fLoop, fGen, fLatest, fRec, fStreaming>>
  /\ UNCHANGED notFVars

\* start_recording (refused without an active stream) and stop_recording
VfRecording ==
  /\ service = "vs_frames"
  /\ fRec' = IF fRec THEN FALSE ELSE fStreaming
  /\ fRec' # fRec
  /\ UNCHANGED <<frame_lock, fLoop, fGen, fStats, fLatest, fStreaming>>
  /\ UNCHANGED notFVars

\* ---------------------------------------- a session of MultiCameraStreamer
\* (stream_lock, which the generator takes around its copy, has no other
\* taker here: start and stop of the session are followed by their flag)

\* start_camera_stream has registered the session and started its loop thread
MfSessionStarts ==
  /\ service = "mc_frames"
  /\ fLoop = "none"
  /\ fStreaming' = TRUE
  /\ fLoop' = "read"
  /\ UNCHANGED <<frame_lock, fGen, fStats, fLatest, fRec>>
  /\ UNCHANGED notFVars

\* stop_camera_stream: stream_info['is_streaming'] = False
MfSessionStops ==
  /\ service = "mc_frames"
  /\ fStreaming
  /\ fStreaming' = FALSE
  /\ UNCHANGED <<frame_lock, fLoop, fGen, fStats, fLatest, fRec>>
  /\ UNCHANGED notFVars

\* _camera_stream_loop: cap.read() gives a frame, it is submitted and the
\* latest result is fetched: None goes on to the next read, a result asks
\* for the lock
MfLoopRead ==
  /\ service = "mc_frames"
  /\ fLoop = "read"
  /\ \E has_result \in BOOLEAN :
       fLoop' = IF has_result THEN "want_publish"
                ELSE IF fStreaming THEN "read" ELSE "ended"
  /\ UNCHANGED <<frame_lock, fGen, fStats, fLatest, fRec, fStreaming>>
  /\ UNCHANGED notFVars

\* _camera_stream_loop: cap.read() gives no frame, or the body raises
MfLoopFails ==
  /\ service = "mc_frames"
  /\ fLoop = "read"
  /\ fLoop' = "ended"
  /\ fStreaming' = FALSE
  /\ UNCHANGED <<frame_lock, fGen, fStats, fLatest, fRec>>
  /\ UNCHANGED notFVars

\* `with stream_info['frame_lock']:` of the publish step is entered ...
MfLoopTakePublish ==
  /\ service = "mc_frames"
  /\ fLoop = "want_publish"
  /\ frame_lock = "free"
  /\ frame_lock' = "loop"
  /\ fLoop' = "in_publish"
  /\ UNCHANGED <<fGen, fStats, fLatest, fRec, fStreaming>>
  /\ UNCHANGED notFVars

\* ... latest_frame and latest_stats are replaced and the lock is given up;
\* the aggregated stats, the pacing sleep and the while test follow
MfLoopPublish ==
  /\ service = "mc_frames"
  /\ fLoop = "in_publish"
  /\ fLatest' = TRUE
  /\ frame_lock' = "free"
  /\ fLoop' = IF fStreaming THEN "read" ELSE "ended"
  /\ UNCHANGED <<fGen, fStats, fRec, fStreaming>>
  /\ UNCHANGED notFVars

\* a client requests the combined stream
MfClientConnects ==
  /\ service = "mc_frames"
  /\ fGen = "none"
  /\ fGen' = "want_lock"
  /\ UNCHANGED <<frame_lock, fLoop, fStats, fLatest, fRec, fStreaming>>
  /\ UNCHANGED notFVars

\* get_multi_camera_mjpeg_generator: `with stream_info['frame_lock']:` is
\* entered for the session ...
MfGenTake ==
  /\ service = "mc_frames"
  /\ fGen = "want_lock"
  /\ fLoop # "none"
  /\ frame_lock = "free"
  /\ frame_lock' = "gen"
  /\ fGen' = "copying"
  /\ UNCHANGED <<fLoop, fStats, fLatest, fRec, fStreaming>>
  /\ UNCHANGED notFVars

\* ... and left with a copy of latest_frame, if there is one; without any
\* frame the round ends in its sleep
MfGenCopy ==
  /\ service = "mc_frames"
  /\ fGen = "copying"
  /\ frame_lock' = "free"
  /\ fGen' = IF fLatest THEN "write" ELSE "sleep"
  /\ UNCHANGED <<fLoop, fStats, fLatest, fRec, fStreaming>>
  /\ UNCHANGED notFVars

\* the layout is made and written to every active recording
MfGenWrite ==
  /\ service = "mc_frames"
  /\ fGen = "write"
  /\ fGen' = "encode"
  /\ UNCHANGED <<frame_lock, fLoop, fStats, fLatest, fRec, fStreaming>>
  /\ UNCHANGED notFVars

\* cv2.imencode; an encoded frame is yielded
MfGenEncode ==
  /\ service = "mc_frames"
  /\ fGen = "encode"
  /\ \E ret \in BOOLEAN : fGen' = IF ret THEN "yielded" ELSE "sleep"
  /\ UNCHANGED <<frame_lock, fLoop, fStats, fLatest, fRec, fStreaming>>
  /\ UNCHANGED notFVars

\* the consumer asks for the next frame, or closes the generator
MfConsumerNext ==
  /\ service = "mc_frames"
  /\ fGen = "yielded"
  /\ \E closes \in BOOLEAN : fGen' = IF closes THEN "none" ELSE "sleep"
  /\ UNCHANGED <<frame_lock, fLoop, fStats, fLatest, fRec, fStreaming>>
  /\ UNCHANGED notFVars

\* time.sleep(0.033), back to the top of `while True`
MfGenSleep ==
  /\ service = "mc_frames"
  /\ fGen = "sleep"
  /\ fGen' = "want_lock"
  /\ UNCHANGED <<frame_lock, fLoop, fStats, fLatest, fRec, fStreaming>>
  /\ UNCHANGED notFVars

\* get_camera_stats() is called and reaches the session's frame_lock ...
MfStatsCall ==
  /\ service = "mc_frames"
  /\ fStats = "idle"
  /\ fLoop # "none"
  /\ fStats' = "want"
  /\ UNCHANGED <<frame_lock, fLoop, fGen, fLatest, fRec, fStreaming>>
  /\ UNCHANGED notFVars

\* ... takes the lock, copies latest_stats, gives the lock up and returns
MfStatsCopy ==
  /\ service = "mc_frames"
  /\ fStats = "want"
  /\ frame_lock = "free"
  /\ fStats' = "idle"
  /\ UNCHANGED <<frame_lock, fLoop, fGen, fLatest, fRec, fStreaming>>
  /\ UNCHANGED notFVars

\* start_recording (refused without a sample frame) and stop_recording
MfRecording ==
  /\ service = "mc_frames"
  /\ fRec' = IF fRec THEN FALSE ELSE fLatest
  /\ fRec' # fRec
  /\ UNCHANGED <<frame_lock, fLoop, fGen, fStats, fLatest, fStreaming>>
  /\ UNCHANGED notFVars

\* the steps of the session's loop thread that take the frame_lock
FLoopTakes ==
  \/ VfLoopTakePrev
  \/ VfLoopTakePublish
  \/ MfLoopTakePublish

\* the step of get_latest_stats / get_camera_stats that takes it
FStatsTakes ==
  \/ VfStatsCopy
  \/ MfStatsCopy

FrameLockInit ==
  /\ Constructed
  /\ service \in {"vs_frames", "mc_frames"}

FrameLockNext ==
  \/ VfStreamStarts
  \/ VfStreamStops
  \/ VfLoopRead
  \/ VfLoopFails
  \/ VfLoopLeavePrev
  \/ VfLoopPublish
  \/ VfClientConnects
  \/ VfGenTop
  \/ VfGenTake
  \/ VfGenWrite
  \/ VfGenEncode
  \/ VfConsumerNext
  \/ VfConsumerCloses
  \/ VfGenSleep
  \/ VfStatsCall
  \/ VfRecording
  \/ MfSessionStarts
  \/ MfSessionStops
  \/ MfLoopRead
  \/ MfLoopFails
  \/ MfLoopPublish
  \/ MfClientConnects
  \/ MfGenTake
  \/ MfGenCopy
  \/ MfGenWrite
  \/ MfGenEncode
  \/ MfConsumerNext
  \/ MfGenSleep
  \/ MfStatsCall
  \/ MfRecording
  \/ FLoopTakes
  \/ FStatsTakes

FrameLockSpec == FrameLockInit /\ [][FrameLockNext]_vars

\* ------------------------------------- the workers of RobustCameraManager
\* The worker threads that _test_with_backend (test_worker) and
\* initialize_camera_robust (init_worker) start for one camera index, each
\* followed statement by statement through force_cleanup_camera and its own
\* open. A worker that is blocked in a native call takes no step; the
\* caller's join may have timed out on it, so that a later worker runs
\* beside it. self.system is "windows" ("worker_windows") or something else
\* ("worker_other").

\* everything but the variables of this part
notWkVars == <<multiVars, service, vsVars, tsVars, plVars, clVars, rcVars, fVars, seVars, lkVars>>

IsWindows == service = "worker_windows"

\* The first statement of test_worker and init_worker: the call of
\* force_cleanup_camera, or (not in the source) the worker's own open.
WorkerEntryOpensFirst == "open"

WorkerEntry == "cl_try"

Logged(w, events) == wkLog' = SetAt(wkLog, w, wkLog[w] \o events)

\* A test worker has found the camera working: result[0] = True.
SomeTestPassed == \E v \in Workers : wkKind[v] = "test" /\ wkEnd[v] = "passed"

\* thread.start() of the next worker: a test_worker of a strategy, or, after
\* a strategy's worker has passed, the init_worker.
WkStart(kind) ==
  /\ service \in {"worker_windows", "worker_other"}
  /\ wkN < MaxWorkers
  /\ kind = "init" => SomeTestPassed
  /\ wkN' = wkN + 1
  /\ wkKind' = SetAt(wkKind, wkN + 1, kind)
  /\ wkPc' = SetAt(wkPc, wkN + 1, WorkerEntry)
  /\ wkTry' = SetAt(wkTry, wkN + 1, 1)
  /\ UNCHANGED <<wkEnd, wkLog>>
  /\ UNCHANGED notWkVars

\* One iteration of the release loop of force_cleanup_camera:
\* cv2.VideoCapture(camera_id), release() when it is opened, and break; a
\* call that raises is passed over, 0.1 s slept, and the loop goes on until
\* its iterations are used up.
WkCleanupTry(w) ==
  /\ wkPc[w] = "cl_try"
  /\ \E outcome \in {"released", "not_opened", "raises"} :
       /\ Logged(w, IF outcome = "released"
                      THEN <<"cleanup_open", "cleanup_release">>
                      ELSE <<"cleanup_open">>)
       /\ IF outcome = "raises" /\ wkTry[w] < CleanupTries
            THEN /\ wkTry' = SetAt(wkTry, w, wkTry[w] + 1)
                 /\ UNCHANGED wkPc
            ELSE /\ wkPc' = SetAt(wkPc, w, "cl_gc")
                 /\ UNCHANGED wkTry
  /\ UNCHANGED <<wkN, wkKind, wkEnd>>
  /\ UNCHANGED notWkVars

\* gc.collect()
WkGc(w) ==
  /\ wkPc[w] = "cl_gc"
  /\ Logged(w, <<"gc">>)
  /\ wkPc' = SetAt(wkPc, w, "cl_grace")
  /\ UNCHANGED <<wkN, wkKind, wkTry, wkEnd>>
  /\ UNCHANGED notWkVars

\* time.sleep(0.5), and the test of self.system
WkGrace(w) ==
  /\ wkPc[w] = "cl_grace"
  /\ Logged(w, <<"grace">>)
  /\ wkPc' = SetAt(wkPc, w, IF IsWindows THEN "cl_reset" ELSE "cl_return")
  /\ UNCHANGED <<wkN, wkKind, wkTry, wkEnd>>
  /\ UNCHANGED notWkVars

\* _reset_windows_camera_driver: time.sleep(2)
WkDriverReset(w) ==
  /\ wkPc[w] = "cl_reset"
  /\ Logged(w, <<"driver_wait">>)
  /\ wkPc' = SetAt(wkPc, w, "cl_return")
  /\ UNCHANGED <<wkN, wkKind, wkTry, wkEnd>>
  /\ UNCHANGED notWkVars

\* force_cleanup_camera returns True; the worker goes on to its own open.
WkCleanupReturns(w) ==
  /\ wkPc[w] = "cl_return"
  /\ Logged(w, <<"cleanup_returned">>)
  /\ wkPc' = SetAt(wkPc, w, "open")
  /\ UNCHANGED <<wkN, wkKind, wkTry, wkEnd>>
  /\ UNCHANGED notWkVars

\* The worker's own cv2.VideoCapture(camera_id[, backend]) and isOpened():
\* a device that is not opened, or a call that raises, sets exception[0].
WkOpen(w) ==
  /\ wkPc[w] = "open"
  /\ Logged(w, <<"open">>)
  /\ \E outcome \in {"opened", "not_opened", "raises"} :
       IF outcome = "opened"
         THEN /\ wkPc' = SetAt(wkPc, w, "read")
              /\ UNCHANGED wkEnd
         ELSE /\ wkPc' = SetAt(wkPc, w, "ended")
              /\ wkEnd' = SetAt(wkEnd, w, "raised")
  /\ UNCHANGED <<wkN, wkKind, wkTry>>
  /\ UNCHANGED notWkVars

\* cap.read() on the opened device: test_worker sets result[0] and releases
\* the handle; init_worker sets the properties and keeps the handle as
\* result[0], or releases it when no frame was read.
WkRead(w) ==
  /\ wkPc[w] = "read"
  /\ \E outcome \in {"frame", "no_frame", "raises"} :
       /\ wkEnd' = SetAt(wkEnd, w, CASE outcome = "frame" -> "passed"
                                     [] outcome = "no_frame" -> "no_frame"
                                     [] OTHER -> "raised")
       /\ Logged(w, CASE outcome = "raises" -> <<"read">>
                      [] outcome = "frame" /\ wkKind[w] = "init" -> <<"read", "set_props">>
                      [] OTHER -> <<"read", "release">>)
  /\ wkPc' = SetAt(wkPc, w, "ended")
  /\ UNCHANGED <<wkN, wkKind, wkTry>>
  /\ UNCHANGED notWkVars

WorkerInit ==
  /\ Constructed
  /\ service \in {"worker_windows", "worker_other"}

WorkerNext ==
  \/ \E kind \in {"test", "init"} : WkStart(kind)
  \/ \E w \in Workers : WkCleanupTry(w)
  \/ \E w \in Workers : WkGc(w)
  \/ \E w \in Workers : WkGrace(w)
  \/ \E w \in Workers : WkDriverReset(w)
  \/ \E w \in Workers : WkCleanupReturns(w)
  \/ \E w \in Workers : WkOpen(w)
  \/ \E w \in Workers : WkRead(w)

WorkerSpec == WorkerInit /\ [][WorkerNext]_vars

\* ------------------------------------------ the sessions, step by step
\* The MultiCameraStreamer with sessions that start_camera_stream has
\* registered, no start being under way: the loop thread of each session is
\* followed from statement to statement, and the callers stop one camera or
\* all of them.

\* everything but the variables of this part and the streamer's
notSeVars == <<service, vsVars, tsVars, plVars, clVars, rcVars, fVars, wkVars, lkVars>>
\* ... and the pipeline's
notSePlVars == <<service, vsVars, tsVars, clVars, rcVars, fVars, wkVars, lkVars>>

\* The sessions registered, by attempt: start calls 1..n have succeeded,
\* each for a camera of its own.
Registrations ==
  UNION { {f \in [1..n -> Cams] : \A i \in 1..n, j \in 1..n : f[i] = f[j] => i = j} :
          n \in 0..Min2(Cardinality(Cams), MaxStarts) }

\* The streamer after the start calls of f have returned True, as
\* StartRegister leaves it, the loop threads not having run yet.
Started(f) ==
  LET used == DOMAIN f IN
  /\ active_streams = [c \in Cams |->
       IF \E k \in used : f[k] = c THEN CHOOSE k \in used : f[k] = c ELSE NoAttempt]
  /\ stream_lock = NoCaller
  /\ aggregated_stats = ZeroStats
  /\ callPc = [t \in Callers |-> "idle"]
  /\ callCam = [t \in Callers |-> 0]
  /\ callAtt = [t \in Callers |-> NoAttempt]
  /\ stopSteps = [t \in Callers |-> <<>>]
  /\ nStarts = Len(f)
  /\ attCam = [k \in Attempts |-> IF k \in used THEN f[k] ELSE 0]
  /\ attRet = [k \in Attempts |-> IF k \in used THEN "true" ELSE "none"]
  /\ acqPhase = [k \in Attempts |-> IF k \in used THEN "exited" ELSE "none"]
  /\ acqIdx = [k \in Attempts |-> 0]
  /\ acqClock = [k \in Attempts |-> 0]
  /\ acqResult = [k \in Attempts |-> "pending"]
  /\ initHung = [k \in Attempts |-> FALSE]
  /\ capState = [k \in Attempts |-> IF k \in used THEN "open" ELSE "none"]
  /\ capRead = [k \in Attempts |-> k \in used]
  /\ capProps = [k \in Attempts |-> k \in used]
  /\ is_streaming = [k \in Attempts |-> k \in used]
  /\ latest_stats = [k \in Attempts |-> NoStats]
  /\ loopPc = [k \in Attempts |-> IF k \in used THEN "top" ELSE "none"]
  /\ procRunning = [k \in Attempts |-> k \in used]

\* ------------------------------------------------- _camera_stream_loop
\* cap.read() returns a frame and processor.submit_frame(frame, width,
\* height) is called; when it raises, the except clause of the loop body
\* breaks out of the loop.
SeLoopRead(k) ==
  /\ service = "sessions"
  /\ loopPc[k] = "read"
  /\ "frame" \in ReadOutcomes(k)
  /\ \E outcome \in {"ok", "raises"} :
       IF outcome = "ok"
         THEN /\ loopPc' = SetAt(loopPc, k, "submitted")
              /\ UNCHANGED is_streaming
         ELSE LoopEnds(k, "ended_exc")
  /\ UNCHANGED <<active_streams, stream_lock, aggregated_stats, callVars, attRet,
                 acqVars, capVars, latest_stats, procVars>>
  /\ UNCHANGED <<seVars, notSeVars>>

\* What processor.get_latest_result() can give: a completed result, or
\* None for the frame or the stats.
ResultsOrNone(k) == LatestResults(k) \cup {NoStats}

\* `if annotated_frame is not None and stats is not None`
HasResultAlways(res) == TRUE

HasResult(res) == res # NoStats

\* processor.get_latest_result() and the test of what it gave: a result
\* replaces latest_frame and latest_stats (with stream_info['frame_lock'])
\* and self._update_aggregated_stats(stats) is called; without one the
\* iteration goes to its pacing sleep at once.
SeGetResult(k) ==
  /\ loopPc[k] = "submitted"
  /\ \E outcome \in {"ok", "raises"} :
       IF outcome = "raises"
         THEN /\ LoopEnds(k, "ended_exc")
              /\ seGot' = SetAt(seGot, k, "raised")
              /\ UNCHANGED <<latest_stats, aggregated_stats>>
         ELSE \E res \in ResultsOrNone(k) :
                /\ seGot' = SetAt(seGot, k, IF res = NoStats THEN "nothing" ELSE "result")
                /\ UNCHANGED is_streaming
                /\ loopPc' = SetAt(loopPc, k, "sleep")
                /\ IF HasResult(res)
                     THEN /\ latest_stats' = SetAt(latest_stats, k, res)
                          /\ aggregated_stats' = ManagerAggregated(latest_stats')
                     ELSE UNCHANGED <<latest_stats, aggregated_stats>>
  /\ UNCHANGED <<active_streams, stream_lock, callVars, attRet,
                 acqVars, capVars, procVars>>
  /\ UNCHANGED <<saCalls, saPc, saIds, saStopped, saReset, notSeVars>>

\* the pacing sleep and the next test of the while condition
SeSleep(k) ==
  /\ loopPc[k] = "sleep"
  /\ LoopTest(k)
  /\ UNCHANGED <<active_streams, stream_lock, aggregated_stats, callVars, attRet,
                 acqVars, capVars, latest_stats, procVars>>
  /\ UNCHANGED <<seVars, notSeVars>>

\* ----------------------------------------------------- stop_all_streams
RECURSIVE KeysUpTo(_)
\* The registered ids among those of the start calls 1..n, in the order of
\* the calls.
KeysUpTo(n) ==
  IF n = 0 THEN <<>>
  ELSE IF active_streams[attCam[n]] = n
         THEN Append(KeysUpTo(n - 1), attCam[n])
         ELSE KeysUpTo(n - 1)

\* list(self.active_streams.keys()): the registered ids, in the order the
\* dictionary has them, which is the order they were registered in
KeyList == KeysUpTo(nStarts)

\* What follows pipeline.reset() in stop_all_streams: an exception it raises
\* is caught and printed.
AfterPipelineResetPropagating(outcome) == IF outcome = "raises" THEN "none" ELSE "procs"

AfterPipelineReset(outcome) == "procs"

\* A client calls stop_all_streams().
SaCall(t) ==
  /\ service \in {"sessions", "shared"}
  /\ callPc[t] = "idle"
  /\ saPc[t] = "none"
  /\ saCalls < MaxStopAll
  /\ saCalls' = saCalls + 1
  /\ saPc' = SetAt(saPc, t, "lock")
  /\ saIds' = SetAt(saIds, t, <<>>)
  /\ saStopped' = SetAt(saStopped, t, {})
  /\ saReset' = SetAt(saReset, t, "none")
  /\ UNCHANGED <<seGot, multiVars, notSeVars>>

\* with self.stream_lock: camera_ids = list(self.active_streams.keys())
SaSnapshot(t) ==
  /\ saPc[t] = "lock"
  /\ stream_lock = NoCaller
  /\ saIds' = SetAt(saIds, t, KeyList)
  /\ saPc' = SetAt(saPc, t, "loop")
  /\ UNCHANGED <<seGot, saCalls, saStopped, saReset, multiVars, notSeVars>>

\* for camera_id in camera_ids: self.stop_camera_stream(camera_id), which
\* takes the lock and goes through its steps before the next id is taken.
SaStopNext(t) ==
  /\ saPc[t] = "loop"
  /\ saIds[t] # <<>>
  /\ StopEntered(t, Head(saIds[t]))
  /\ saIds' = SetAt(saIds, t, Tail(saIds[t]))
  /\ saStopped' = SetAt(saStopped, t,
       IF active_streams[Head(saIds[t])] # NoAttempt
         THEN saStopped[t] \cup {Head(saIds[t])} ELSE saStopped[t])
  /\ UNCHANGED <<seGot, saCalls, saPc, saReset, notSeVars>>

\* the list is used up
SaLoopDone(t) ==
  /\ saPc[t] = "loop"
  /\ callPc[t] = "idle"
  /\ saIds[t] = <<>>
  /\ saPc' = SetAt(saPc, t, "reset")
  /\ UNCHANGED <<seGot, saCalls, saIds, saStopped, saReset, multiVars, notSeVars>>

\* try: self.pipeline.reset() except Exception: print. The pipeline is the
\* one the streamer was constructed with, which is the VideoStreamer's too.
SaReset(t) ==
  /\ saPc[t] = "reset"
  /\ \E outcome \in {"ok", "raises"} :
       /\ saReset' = SetAt(saReset, t, IF outcome = "ok" THEN "ok" ELSE "raised")
       /\ saPc' = SetAt(saPc, t, AfterPipelineReset(outcome))
       /\ IF outcome = "ok" THEN PipelineResets ELSE UNCHANGED plVars
  /\ UNCHANGED <<seGot, saCalls, saIds, saStopped, multiVars, notSePlVars>>

\* self.isolated_manager.stop_all_processing()
SaStopProcessors(t) ==
  /\ saPc[t] = "procs"
  /\ procRunning' = [k \in Attempts |-> FALSE]
  /\ saPc' = SetAt(saPc, t, "sleep")
  /\ UNCHANGED <<active_streams, stream_lock, aggregated_stats, callVars, attRet,
                 acqVars, capVars, sessVars>>
  /\ UNCHANGED <<seGot, saCalls, saIds, saStopped, saReset, notSeVars>>

\* time.sleep(0.5); stop_all_streams returns.
SaSleep(t) ==
  /\ saPc[t] = "sleep"
  /\ saPc' = SetAt(saPc, t, "none")
  /\ UNCHANGED <<seGot, saCalls, saIds, saStopped, saReset, multiVars, notSeVars>>

SessionsInit ==
  /\ \E f \in Registrations : Started(f)
  /\ ConstructedOthers
  /\ service = "sessions"

SessionsNext ==
  \/ \E t \in Callers, c \in Cams : CallStop(t, c)
  \/ \E t \in Callers : StopRelease(t)
  \/ \E t \in Callers : StopJoin(t)
  \/ \E t \in Callers : StopDelete(t)
  \/ \E k \in Attempts : LoopTop(k)
  \/ \E k \in Attempts : LoopReadFails(k)
  \/ \E k \in Attempts : SeLoopRead(k)
  \/ \E k \in Attempts : SeGetResult(k)
  \/ \E k \in Attempts : SeSleep(k)
  \/ \E t \in Callers : SaCall(t)
  \/ \E t \in Callers : SaSnapshot(t)
  \/ \E t \in Callers : SaStopNext(t)
  \/ \E t \in Callers : SaLoopDone(t)
  \/ \E t \in Callers : SaReset(t)
  \/ \E t \in Callers : SaStopProcessors(t)
  \/ \E t \in Callers : SaSleep(t)

SessionsSpec == SessionsInit /\ [][SessionsNext]_vars

\* ------------------------------------------------------------ the system
\* the steps of the VideoStreamer's sessions
VsNext ==
  \/ VsCallStart
  \/ VsCallStop
  \/ VsStopFlag
  \/ VsStopJoin
  \/ VsStopRelease
  \/ VsStopReset
  \/ VsStartOpen
  \/ VsStartSource
  \/ VsStartFlag
  \/ VsStartThread
  \/ \E j \in Attempts : VsLoopTop(j)
  \/ \E j \in Attempts : VsLoopReadFails(j)
  \/ \E j \in Attempts : VsLoopFrame(j)

Next ==
  \/ \E t \in Callers, c \in Cams : CallStart(t, c)
  \/ \E t \in Callers : StartLocked(t)
  \/ \E t \in Callers : StartJoin(t)
  \/ \E t \in Callers : StartProcessor(t)
  \/ \E t \in Callers : StartThread(t)
  \/ \E t \in Callers : StartRegister(t)
  \/ \E t \in Callers, c \in Cams : CallStop(t, c)
  \/ \E t \in Callers : StopRelease(t)
  \/ \E t \in Callers : StopJoin(t)
  \/ \E t \in Callers : StopDelete(t)
  \/ \E k \in Attempts : AcqTestStrategy(k)
  \/ \E k \in Attempts : AcqInitQuick(k)
  \/ \E k \in Attempts : AcqInitTimeout(k)
  \/ \E k \in Attempts : AcqAbandonedTests(k)
  \/ \E k \in Attempts : AcqAbandonedInit(k)
  \/ \E k \in Attempts : HungInitWorkerEnds(k)
  \/ \E k \in Attempts : LoopTop(k)
  \/ \E k \in Attempts : LoopReadFails(k)
  \/ \E k \in Attempts : LoopFrame(k)
  \/ VsNext

Spec == Init /\ [][Next]_vars

\* ------------------------------------------- the strategy walk on its own
StrategyInit ==
  /\ Constructed
  /\ service = "strategies"

\* the steps of the thread that called test_camera_with_multiple_strategies
StrategyCallerStep ==
  \/ TsCall
  \/ TsStartWorker
  \/ TsJoin

StrategyNext ==
  \/ StrategyCallerStep
  \/ \E i \in Strategies : TsWorkerEnds(i)

\* The caller thread is scheduled, and its join returns once the timeout has
\* run out; nothing makes a worker's native call return.
StrategySpec ==
  StrategyInit /\ [][StrategyNext]_vars /\ WF_vars(StrategyCallerStep)

\* ------------------------------------------------- the pipeline on its own
PipelineInit ==
  /\ Constructed
  /\ service = "pipeline"

PipelineNext ==
  \/ \E dets \in FrameInputs : ProcessFrame(dets)
  \/ PipelineReset

PipelineSpec == PipelineInit /\ [][PipelineNext]_vars

\* ----------------------------------------- one identity in the pipeline
ClassifierInit ==
  /\ Constructed
  /\ service = "classifier"

ClassifierNext ==
  \/ \E p \in Poses : ClFrameFace(p)
  \/ ClFrameNoFace
  \/ ClFrameMissed
  \/ ClFrameRetired
  \/ ClReset

ClassifierSpec == ClassifierInit /\ [][ClassifierNext]_vars

\* --------------------------------------------------------------- recording
\* A behaviour follows the recordings of the multi-camera streamer, or those
\* of the single-camera streamer.
RecordingInit ==
  /\ Constructed
  /\ service \in {"recording", "single_recording"}

RecordingNext ==
  \/ \E c \in Cams : RcCamStarts(c)
  \/ \E c \in Cams : RcCamRegisters(c)
  \/ \E c \in Cams : RcPublish(c)
  \/ \E c \in Cams : RcCamStops(c)
  \/ \E g \in GenClients : RcClientConnects(g)
  \/ \E g \in GenClients : RcClientLeaves(g)
  \/ \E g \in GenClients : RcGenRound(g)
  \/ \E r \in RecIds : RcStartRecording(r)
  \/ RcStartGather
  \/ \E r \in RecIds : RcStopRecording(r)
  \/ \E r \in RecIds, f \in SUBSET Cams \ {{}} : RcWriteRecordingFrame(r, f)
  \/ VrStreamStarts
  \/ VrStreamEnds
  \/ \E r \in RecIds : VsStartRecording(r)
  \/ \E r \in RecIds : VsStopRecording(r)
  \/ \E r \in RecIds : VsWriteRecordingFrame(r)

RecordingSpec == RecordingInit /\ [][RecordingNext]_vars

\* ================================================================== claims
\* C1: two start_camera_stream calls on distinct camera ids do not block each
\* other: while one caller is in the acquisition of its camera, a caller that
\* has entered start_camera_stream for another camera can take the lock and
\* go on with its own start.
C1_DistinctStartsDoNotBlock ==
  \A a \in Callers, b \in Callers :
    ( /\ a # b
      /\ callPc[a] = "start_lock"
      /\ callPc[b] = "start_join"
      /\ callCam[a] # callCam[b] )
    => ENABLED StartLocked(a)

\* The positions of a stop_camera_stream call that holds the lock.
StopPcs == {"stop_release", "stop_join", "stop_del"}

\* C2: stop_camera_stream on a registered camera always returns, also when the
\* session's loop thread is blocked in a read that never returns: each of its
\* remaining steps can be taken whatever the loop thread is doing, and when
\* the call returns the id is not a key of the registry.
C2_StopAlwaysReturns ==
  /\ [](\A t \in Callers :
          /\ callPc[t] = "stop_release" => ENABLED StopRelease(t)
          /\ callPc[t] = "stop_join" => ENABLED StopJoin(t)
          /\ callPc[t] = "stop_del" => ENABLED StopDelete(t))
  /\ [][\A t \in Callers :
          (callPc[t] \in StopPcs /\ callPc'[t] = "idle")
          => active_streams'[callCam[t]] = NoAttempt]_vars

\* C2 witness: a stop call has returned and removed the session while the
\* session's loop thread is still in its read.
C2_StoppedWhileLoopInRead ==
  \E k \in Attempts :
    /\ attRet[k] = "true"
    /\ attCam[k] # 0
    /\ active_streams[attCam[k]] # k
    /\ loopPc[k] = "read"
    /\ capState[k] = "released"
    /\ \A t \in Callers : callAtt[t] # k

\* The sum, over the cameras in the registry, of the last snapshot each one's
\* session published (none published counts as zero).
RegistrySum ==
  SumUpTo([k \in Attempts |->
             IF attCam[k] # 0 /\ active_streams[attCam[k]] = k
               THEN OrZero(latest_stats[k]) ELSE ZeroStats],
          MaxStarts)

\* C3: at every moment get_aggregated_stats() is the exact sum, over the
\* cameras in the registry, of each camera's last published snapshot: a
\* stopped camera is not counted, and with every camera stopped it is zero.
C3_AggregatedIsRegistrySum == get_aggregated_stats = RegistrySum

\* C4: when start_camera_stream returns False nothing is left behind: the id
\* is not registered by that call, the call has no loop thread, and no capture
\* handle of the call is open, then or later.
C4_FailedStartLeavesNothing ==
  \A k \in Attempts :
    attRet[k] = "false" =>
      /\ active_streams[attCam[k]] # k
      /\ loopPc[k] = "none"
      /\ capState[k] # "open"

\* C5: acquisition reports failure to start_camera_stream only after every
\* one of the five strategies has been attempted: a start call does not
\* return False from its join of the acquisition thread while a strategy
\* remains untried.
C5_FailureOnlyAfterEveryStrategy ==
  [][\A t \in Callers :
       (callPc[t] = "start_join" /\ attRet'[callAtt[t]] = "false")
       => (acqPhase[callAtt[t]] = "done" /\ acqIdx[callAtt[t]] = NumStrategies)]_vars

\* C6: start_camera_stream on an id that is in the registry returns True and
\* touches nothing: no acquisition is started, no handle, processor, loop
\* thread or registry entry is made or changed.
C6_StartIsIdempotent ==
  [][\A t \in Callers :
       ( /\ callPc[t] = "start_lock"
         /\ callPc'[t] # "start_lock"
         /\ active_streams[callCam[t]] # NoAttempt )
       => /\ attRet'[callAtt[t]] = "true"
          /\ callPc'[t] = "idle"
          /\ UNCHANGED <<active_streams, stream_lock, aggregated_stats,
                         acqVars, capVars, sessVars, procVars>>]_vars

\* C6 witness: a start call on a registered camera has returned True without
\* having been given a camera of its own to acquire, the session registered
\* before it still being the one in the registry.
C6_RepeatedStartReturned ==
  \E k \in Attempts, k0 \in Attempts :
    /\ attRet[k] = "true"
    /\ attCam[k] = 0
    /\ k0 # k
    /\ attCam[k0] # 0
    /\ active_streams[attCam[k0]] = k0

\* C7: a loop thread that has ended (a read without a frame, the stop flag,
\* an exception) leaves its session's is_streaming False, so is_camera_active
\* and is_active are False; a read failure ends the thread without anything
\* being published, and a thread that has ended publishes nothing.
C7_LoopExitIsTerminalAndDetectable ==
  /\ [](\A k \in Attempts :
          loopPc[k] \in LoopEnded =>
            /\ ~is_streaming[k]
            /\ (attCam[k] # 0 /\ active_streams[attCam[k]] = k)
                 => ~is_camera_active(attCam[k]))
  /\ [][\A k \in Attempts :
          /\ (loopPc[k] = "read" /\ loopPc'[k] = "ended_read")
               => UNCHANGED <<latest_stats, aggregated_stats>>
          /\ loopPc[k] \in LoopEnded
               => (loopPc'[k] = loopPc[k] /\ latest_stats'[k] = latest_stats[k])]_vars
  /\ [][\A j \in Attempts :
          /\ (vsLoop[j] = "read" /\ vsLoop'[j] = "ended_read")
               => UNCHANGED vs_latest
          /\ (vsLoop[j] \notin LoopEnded /\ vsLoop'[j] \in LoopEnded)
               => ~is_active'
          /\ vsLoop[j] \in LoopEnded => vsLoop'[j] = vsLoop[j]]_vars

\* C7 witness: the loop thread of a registered session that nobody is
\* stopping has ended on a read failure.
C7_ReadFailureInRunningSession ==
  \E k \in Attempts :
    /\ loopPc[k] = "ended_read"
    /\ attCam[k] # 0
    /\ active_streams[attCam[k]] = k
    /\ capState[k] = "open"
    /\ \A t \in Callers : callAtt[t] # k

\* C8: an exception raised while a frame is processed in a session loop does
\* not end the loop: no loop thread ends through the except clause of its
\* loop body.
C8_FrameExceptionIsRecoverable ==
  /\ \A k \in Attempts : loopPc[k] # "ended_exc"
  /\ \A j \in Attempts : vsLoop[j] # "ended_exc"

\* The steps of stop_camera_stream before the removal, in the order stated.
StopOrder == <<"flag", "release", "join">>

\* C9: stop_camera_stream sets the flag, then releases the handle, then
\* joins the loop thread, then removes the session from the registry: the
\* steps a call has performed are always a prefix of that order, and the
\* registry entry is removed only after all three.
C9_StopOrder ==
  /\ [](\A t \in Callers :
          /\ Len(stopSteps[t]) <= Len(StopOrder)
          /\ stopSteps[t] = SubSeq(StopOrder, 1, Len(stopSteps[t]))
          /\ Len(stopSteps[t]) >= 1 => ~is_streaming[callAtt[t]]
          /\ Len(stopSteps[t]) >= 2 => capState[callAtt[t]] = "released")
  /\ [][\A c \in Cams :
          (active_streams[c] # NoAttempt /\ active_streams'[c] = NoAttempt)
          => \E t \in Callers : callCam[t] = c /\ stopSteps[t] = StopOrder]_vars

\* C9 witness: a stop call has set the flag, released the handle and joined
\* the loop thread, and is about to remove the session.
C9_StopAboutToRemove ==
  \E t \in Callers :
    /\ callPc[t] = "stop_del"
    /\ stopSteps[t] = StopOrder
    /\ active_streams[callCam[t]] = callAtt[t]

C11_StrategyTimeoutIsFailureAndCallReturns ==
  /\ <>(tsPc = "returned")
  /\ [](tsPc = "join" => ENABLED TsJoin)
  /\ [][(tsPc = "join" /\ tsPc' # "join" /\ tsWorker[tsIdx] = "running")
        => /\ tsCounted'[tsIdx] = "timeout"
           /\ tsWorker'[tsIdx] = "running"
           /\ tsRet'.ok # "true"
           /\ tsPc' = (IF tsIdx < NumStrategies THEN "loop" ELSE "returned")]_vars
  /\ [](tsRet.ok = "true"
        => /\ tsWorker[tsRet.strategy] = "passed"
           /\ tsCounted[tsRet.strategy] = "success"
           /\ \A i \in 1..(tsRet.strategy - 1) : tsCounted[i] \in {"failure", "timeout"})
  /\ [](\A i \in Strategies :
          /\ tsCounted[i] = "timeout" => tsWorker[i] # "none"
          /\ i > tsIdx => tsWorker[i] = "none")

\* C11 witness: the call has returned although the workers of all five
\* strategies are still inside their native calls.
C11_ReturnedWithEveryWorkerBlocked ==
  /\ tsPc = "returned"
  /\ \A i \in Strategies : tsWorker[i] = "running" /\ tsCounted[i] = "timeout"


IsFrameStep == plFrameCount' # 0 /\ plFrameCount' # plFrameCount

\* the Track of id i was matched by the update of this step
MatchedInStep(i) == \E d \in DOMAIN lastIds' : lastIds'[d] = i

C14_UpdateMatchesByIou ==
  [][IsFrameStep =>
       LET D == DOMAIN lastIds'
       IN  /\ DOMAIN lastDets' = D
           /\ \A d, e \in D : d # e => lastIds'[d] # lastIds'[e]
           /\ \A d \in D :
                LET id == lastIds'[d]
                    b == lastDets'[d]
                IN  /\ tkBox'[id] = b
                    /\ id \in LiveIds => IouAtLeastThreshold(tkBox[id], b)
                    /\ id \notin LiveIds =>
                         /\ next_id <= id /\ id < next_id'
                         /\ \A e \in D : (e < d /\ lastIds'[e] \notin LiveIds)
                                            => lastIds'[e] < id
                         /\ \A i \in LiveIds :
                              IouAtLeastThreshold(tkBox[i], b) =>
                                \E e \in D \ {d} :
                                  /\ lastIds'[e] = i
                                  /\ ~IouGreater(tkBox[i], b, tkBox[i], lastDets'[e])
           /\ \A i \in LiveIds : \A d \in D :
                (/\ lastDets'[d] = tkBox[i]
                 /\ \A j \in LiveIds \ {i} : tkBox[j] # tkBox[i]
                 /\ \A e \in D \ {d} : lastDets'[e] # lastDets'[d])
                  => lastIds'[d] = i
           /\ next_id' = next_id + Cardinality({d \in D : lastIds'[d] \notin LiveIds})]_vars

\* Two overlapping detections in one frame: the second one inherited id 1,
\* the first one has id 2.
C14_InheritedAndOtherId ==
  /\ Len(lastIds) = 2
  /\ lastIds[1] = 2 /\ lastIds[2] = 1
  /\ IouAtLeastThreshold(lastDets[1], lastDets[2])
  /\ lastDets[1] # lastDets[2]

\* C16: every id in use (one that has a Track, or one the classifier holds
\* state for) lies below the tracker's counter; the id of a new Track is at
\* or above the counter as it was, so it is greater than every id in use and
\* than every id allocated since the last reset, and the new ids of one frame
\* are distinct; the counter goes back only in reset(), to 1, and that step
\* leaves no Track and no classifier state.
C16_IdsIncreaseBetweenResets ==
  /\ [](\A i \in LiveIds \cup histIds \cup tkDisappeared : i < next_id)
  /\ [][/\ \A i \in Ids :
             (tkBox[i] = NoBox /\ tkBox'[i] # NoBox /\ IsFrameStep)
               => /\ next_id <= i /\ i < next_id'
                  /\ i \notin histIds /\ i \notin LiveIds
                  /\ \A j \in LiveIds \cup histIds \cup tkDisappeared : j < i
        /\ IsFrameStep =>
             /\ next_id' >= next_id
             /\ \A d, e \in DOMAIN lastIds' : d # e => lastIds'[d] # lastIds'[e]
        /\ (next_id' < next_id \/ plFrameCount' = 0) =>
             /\ next_id' = 1
             /\ \A i \in Ids : tkBox'[i] = NoBox
             /\ histIds' = {}
             /\ tkDisappeared' = {}]_vars

\* every id of the counter's range has been allocated: all have a Track and
\* classifier state, the counter is past them
C16_AllIdsAllocatedAndInUse ==
  /\ next_id = MaxIds + 1
  /\ LiveIds = Ids
  /\ histIds = Ids
  /\ Len(lastIds) = 1 /\ lastIds[1] = MaxIds

\* C15: whenever a frame has classified a status under the identity's id,
\* the status returned is the committed one; it differs from the status
\* committed before the call exactly when the status classified differs from
\* that one and has been the status classified in each of the last K frames
\* (K = HysteresisFrames), and then it is the status classified. So a single
\* differing frame after a frame of the committed status changes nothing,
\* and a status sustained for K frames is returned from the K-th on.
C15_StatusChangesExactlyAfterKFrames ==
  clOut.raw # "none" =>
    /\ clHyst.committed = clOut.status
    /\ clOut.was = "none" => clOut.status = clOut.raw
    /\ clOut.was # "none" =>
         LET n == Len(clRawLog)
             sustained ==
               /\ clOut.raw # clOut.was
               /\ n = HysteresisFrames
               /\ \A k \in 1..n : clRawLog[k] = clOut.raw
         IN  /\ (clOut.status # clOut.was) <=> sustained
             /\ sustained => clOut.status = clOut.raw
             /\ (n >= 2 /\ clRawLog[n - 1] = clOut.was) => clOut.status = clOut.was

\* a status other than the committed one has lasted K frames and was committed
C15_ChangeCommitted ==
  /\ clOut.was # "none"
  /\ clOut.status # clOut.was
  /\ Len(clRawLog) = HysteresisFrames
  /\ \A k \in 1..Len(clRawLog) : clRawLog[k] = clOut.status

\* C17: once the identity's Track is retired, the classifier holds nothing
\* under its id and get_attention_confidence(id) is the default value; an id
\* the tracker has not given out since its reset has no state either; and
\* the first frame that uses the id again starts from an empty history: with
\* a face the smoothed pose is the frame's raw pose, the history is that one
\* sample and the status is the band of that pose alone; without a face
\* there is no last known pose to fall back to.
C17_ClearedIdStartsAfresh ==
  /\ [](clTrack = "retired" =>
          /\ clHist = <<>> /\ clHyst = EmptyHyst
          /\ AttentionConfidence(clHyst) = NeutralConfidence)
  /\ [](clTrack = "unused" => clHist = <<>> /\ clHyst = EmptyHyst)
  /\ [][(clTrack # "tracked" /\ clTrack' = "tracked") =>
          IF clOut'.face
          THEN /\ clOut'.pose = clOut'.in
               /\ clHist' = <<clOut'.in>>
               /\ clOut'.status = Band(clOut'.in)
               /\ clOut'.was = "none"
               /\ clHyst' = [committed |-> Band(clOut'.in),
                             candidate |-> "none", streak |-> 0]
          ELSE /\ clOut'.status = "No face detected"
               /\ clHist' = <<>> /\ clHyst' = EmptyHyst]_vars

\* the Track of an identity with smoothing state was retired, the state cleared
C17_RetiredIdCleared ==
  /\ clTrack = "retired"
  /\ clCleared
  /\ AttentionConfidence(clHyst) = NeutralConfidence

\* C18: while a multi-camera recording is active, every frame the session
\* loops publish is written to it, whether or not a client is consuming the
\* combined stream: no frame published while a recording was active is
\* replaced by the next one, dropped with its session, or left behind at the
\* recording's stop, without having been written to that recording.
C18_EveryPublishedFrameIsWritten ==
  \A r \in RecIds : ~recMissed[r]

\* C19: start_recording returns False and creates no recording when there
\* is no active camera as it is called, and when no registered session has a
\* latest_frame as it gathers the sample frames; it reaches the recorder only
\* with a sample frame, and a recording becomes active only in such a step.
C19_NoSampleFrameNoRecording ==
  [][/\ (service = "recording" /\ rcRet'.n # rcRet.n /\ rcRet'.op = "start") =>
          /\ rcPc = "idle" =>
               /\ ActiveCameras = {}
               /\ rcRet'.ret = "False" /\ rcRet'.at = "no_cameras"
               /\ rec' = rec
          /\ rcPc = "gather" =>
               /\ rcRet'.id = rcId
               /\ IF FramesInRegistry = {}
                  THEN rcRet'.ret = "False" /\ rcRet'.at = "no_frames" /\ rec' = rec
                  ELSE /\ rcRet'.ret = "True" /\ rcRet'.at = "recorder"
                       /\ rec' = [rec EXCEPT ![rcId] = "active"]
     /\ \A r \in RecIds :
          (rec[r] # "active" /\ rec'[r] = "active") =>
             /\ FramesInRegistry # {}
             /\ rcPc = "gather" /\ rcId = r
             /\ rcRet' = [n |-> 1 - rcRet.n, op |-> "start", id |-> r,
                          ret |-> "True", at |-> "recorder"]]_vars

\* start_recording has returned False for want of a frame, with a camera
\* registered whose latest_frame is still None, and no recording exists
C19_RefusedWithCameraButNoFrame ==
  /\ rcRet.op = "start" /\ rcRet.ret = "False" /\ rcRet.at = "no_frames"
  /\ \E c \in Cams : rcCam[c] = "no_frame"
  /\ FramesInRegistry = {}
  /\ \A r \in RecIds : rec[r] = "none"

SlowPcs == {"start_join", "stop_release", "stop_join"}

\* C21: stream_lock is held only to read or change the registry: no caller
\* holds it while it is in camera acquisition, in the release of a capture
\* handle or in the join of a loop thread, so that a stop_camera_stream (as
\* get_camera_frame, get_camera_stats and is_camera_active, which take the
\* same lock) on one camera can take the lock while another camera is being
\* acquired or joined.
C21_LockNotHeldAcrossSlowOperation ==
  /\ \A t \in Callers : callPc[t] \in SlowPcs => stream_lock # t
  /\ \A t \in Callers, u \in Callers, c \in Cams :
       ( /\ callPc[t] = "idle"
         /\ callPc[u] \in SlowPcs
         /\ callCam[u] # c )
       => stream_lock = NoCaller

\* C22: a session's frame_lock is held only while the latest frame and stats
\* are copied in or out: the generator does not hold it while it writes to a
\* recording, while it encodes, or while it is suspended at a yield, and so
\* with a consumer that does not come back the loop's publish step and
\* get_latest_stats can still take the lock whenever neither of them has it.
C22_FrameLockHeldOnlyForCopy ==
  /\ fGen \in {"write", "encode", "yielded"} => frame_lock # "gen"
  /\ ( /\ fGen = "yielded"
       /\ fLoop \in {"want_prev", "want_publish"}
       /\ frame_lock \notin {"loop", "stats"} ) => ENABLED FLoopTakes
  /\ ( /\ fGen = "yielded"
       /\ fStats = "want"
       /\ frame_lock \notin {"loop", "stats"} ) => ENABLED FStatsTakes

\* C23: once the loop of a camera's session has exited on a read failure, a
\* start_camera_stream for that camera goes through acquisition again, and a
\* start that returns True leaves a live loop thread streaming for the camera.
C23_RestartAfterReadFailure ==
  [][\A t \in Callers :
       (callPc[t] = "start_lock" /\ callPc'[t] # "start_lock") =>
         LET c == callCam[t]
             k == active_streams[c] IN
         /\ (k # NoAttempt /\ loopPc[k] = "ended_read")
              => callPc'[t] = "start_join"
         /\ (callPc'[t] = "idle" /\ attRet'[callAtt[t]] = "true")
              => (is_camera_active(c) /\ loopPc[k] \notin LoopEnded)]_vars

\* C25: VideoStreamer.stop_stream releases the capture handle before it
\* joins the loop thread: while stop_stream waits in the join, the handle the
\* session reads from has been released already.
C25_StopStreamReleasesBeforeJoin ==
  vsPc = "stop_join" =>
    (vs_current_source = 0 \/ vsCap[vs_current_source] = "released")

\* The handles opened by the sessions before the one start_stream is making.
EarlierHandles == 1..(vsStarts - 1)

\* C26: when start_stream makes a new session, pipeline.reset() has been
\* called since the last frame the earlier session processed, and the earlier
\* session's capture handle has been released, whichever way that session
\* ended.
C26_RestartResetsAndReleases ==
  vsPc \in {"start_source", "start_flag", "start_thread"} =>
    /\ ~pipeDirty
    /\ \A j \in EarlierHandles : vsCap[j] # "open"

\* C27: when a frame has a detection of the identity without a face and a
\* pose was recorded for the identity before, the detection's yaw, pitch and
\* status come from that last known pose, classified with the identity's
\* hysteresis, whatever the recorded pose is; the status does not stay
\* 'No face detected'.
C27_LastKnownPoseUsedOnFaceMiss ==
  (~clOut.face /\ clOut.status # "none" /\ clHist # <<>>) =>
    /\ clOut.status # "No face detected"
    /\ clOut.pose = LastKnownPose(clHist)
    /\ clOut.raw = Band(LastKnownPose(clHist))

\* The positions of the log of worker w at which event e stands.
At(w, e) == {i \in DOMAIN wkLog[w] : wkLog[w][i] = e}

\* C28: a worker's own open of the camera index is issued only after its
\* call of force_cleanup_camera has returned, and that call has opened (and
\* released) the index, collected garbage and slept its grace delay, in this
\* order, before it returned; each worker calls it and opens at most once.
C28_CleanupCompletesBeforeOpen ==
  \A w \in Workers :
    /\ \A o \in At(w, "open") :
         \E r \in At(w, "cleanup_returned"), g \in At(w, "grace"),
            c \in At(w, "gc"), t \in At(w, "cleanup_open") :
           t < c /\ c < g /\ g < r /\ r < o
    /\ wkPc[w] \in {"open", "read", "ended"} => At(w, "grace") # {}
    /\ IsWindows => \A o \in At(w, "open") : \E d \in At(w, "driver_wait") : d < o

\* A test worker and the init worker that follows it have both issued their
\* own open, the init worker after a release loop that took a second try.
C28_Witness ==
  \E v \in Workers, w \in Workers :
    /\ wkKind[v] = "test" /\ wkKind[w] = "init"
    /\ At(v, "open") # {} /\ At(w, "open") # {}
    /\ wkTry[w] > 1

\* The session of attempt k has been deleted from the registry.
Deleted(k) == loopPc[k] # "none" /\ \A c \in Cams : active_streams[c] # k

\* C24: once stop_camera_stream has deleted a session from active_streams,
\* the session's loop thread writes neither its latest_frame / latest_stats
\* nor the aggregated stats any more.
C24_NoWriteAfterSessionDeleted ==
  [][\A k \in Attempts :
       Deleted(k) =>
         /\ latest_stats'[k] = latest_stats[k]
         /\ aggregated_stats' # aggregated_stats => loopPc'[k] = loopPc[k]]_vars

C30_NoResultKeepsLastPublished ==
  [][\A k \in Attempts :
       /\ (loopPc[k] = "submitted" /\ seGot'[k] = "nothing" /\ loopPc'[k] # "submitted")
            => /\ loopPc'[k] = "sleep"
               /\ latest_stats' = latest_stats
               /\ aggregated_stats' = aggregated_stats
       /\ (seGot[k] = "nothing" /\ seGot'[k] = "nothing")
            => latest_stats'[k] = latest_stats[k]
       /\ (loopPc[k] = "sleep" /\ loopPc'[k] # "sleep")
            => /\ loopPc'[k] \in {"read", "ended_flag"}
               /\ (is_streaming[k] /\ capState[k] = "open") => loopPc'[k] = "read"]_vars

\* A session that has published a result is back in cap.read() after an
\* iteration in which get_latest_result gave nothing.
C30_Witness ==
  \E k \in Attempts :
    /\ seGot[k] = "nothing"
    /\ loopPc[k] = "read"
    /\ latest_stats[k] # NoStats

\* The frame counts should_skip_frame is tried with: some runs of each length.
SkipValues == 0..MaxSkip
FrameCounts == 0..(3 * (MaxSkip + 1))

\* The counts of the run of skip_frames + 1 consecutive counts from `first`
\* that are not skipped.
KeptInRun(first, skip_frames) ==
  {c \in first..(first + skip_frames) : ~should_skip_frame(c, skip_frames)}

\* C31: should_skip_frame returns False for exactly one count of every run of
\* skip_frames + 1 consecutive counts, the one divisible by skip_frames + 1;
\* and a frame step of _stream_loop runs process_frame exactly when the
\* frame's count is such a one, every other frame republishing what was
\* published before, or the raw frame when nothing was.
C31_ProcessesOneFrameInEveryRun ==
  /\ \A skip \in SkipValues, first \in FrameCounts :
       /\ Cardinality(KeptInRun(first, skip)) = 1
       /\ \A c \in KeptInRun(first, skip) : \E q \in 0..c : c = q * (skip + 1)
  /\ [][\A j \in Attempts :
          (vsLoop[j] = "read" /\ vsFrames'[j] # vsFrames[j]) =>
            IF vsFrames'[j] = 0
              THEN \/ vs_latest' = "processed" /\ pipeDirty'
                   \/ vsLoop'[j] = "ended_exc" /\ UNCHANGED <<vs_latest, pipeDirty>>
              ELSE /\ vs_latest' = (IF vs_latest = "none" THEN "raw" ELSE vs_latest)
                   /\ pipeDirty' = pipeDirty
                   /\ vsLoop'[j] # "ended_exc"]_vars

\* A loop that has processed a frame has republished the result for the
\* frame after it.
C31_Witness ==
  \E j \in Attempts :
    /\ vsLoop[j] = "read"
    /\ vsFrames[j] = 1
    /\ vs_latest = "processed"


\* start_stream has returned True for the session made last and no call of
\* start_stream or stop_stream has been made since.
VsSessionRunning ==
  /\ vsPc = "idle"
  /\ vsStarts > 0
  /\ vsRet[vsStarts] = "true"

\* C32: after start_stream has returned True, and until stop_stream is
\* called, is_streaming is set to False only by the loop thread of that
\* session leaving its loop after a read on the session's own handle; a loop
\* thread of an earlier session never sets it to False.
C32_OnlyOwnLoopClearsIsStreaming ==
  [][(VsSessionRunning /\ vs_is_streaming /\ ~vs_is_streaming') =>
       /\ vsLoop[vsStarts] = "read"
       /\ vsLoopSrc[vsStarts] = vsStarts
       /\ vsLoop'[vsStarts] \in {"ended_read", "ended_exc"}]_vars


\* The loop threads that are in a read on the handle current_source holds.
VsReadersOfCurrent ==
  {j \in Attempts : /\ vsLoop[j] = "read"
                    /\ vs_current_source # 0
                    /\ vsLoopSrc[j] = vs_current_source}

\* C33: at most one loop thread of the VideoStreamer at a time reads from
\* current_source, and a loop thread reads only from the handle of the
\* session it was started for, never from the handle of a later session.
C33_OneLoopThreadOnCurrentSource ==
  /\ Cardinality(VsReadersOfCurrent) <= 1
  /\ \A j \in Attempts : vsLoop[j] = "read" => vsLoopSrc[j] = j


\* The loop thread of attempt k is alive although stop_camera_stream has
\* released the session's handle and deleted the session from the registry.
Abandoned(k) ==
  /\ Deleted(k)
  /\ capState[k] = "released"
  /\ loopPc[k] \notin LoopEnded

\* C34: a loop thread that stop_camera_stream abandoned never affects a later
\* session: every step it takes ends it (its own handle is released and its
\* own flag is False), and leaves the registry and the flag, the handle, the
\* published stats and the loop thread of every other session as they were.
C34_AbandonedLoopLeavesLaterSessionsAlone ==
  [][\A k \in Attempts :
       (Abandoned(k) /\ loopPc'[k] # loopPc[k]) =>
         /\ loopPc'[k] \in LoopEnded
         /\ active_streams' = active_streams
         /\ \A n \in Attempts \ {k} :
              /\ is_streaming'[n] = is_streaming[n]
              /\ capState'[n] = capState[n]
              /\ latest_stats'[n] = latest_stats[n]
              /\ loopPc'[n] = loopPc[n]]_vars

\* An abandoned loop thread is alive while a later session of the same
\* camera is registered and its own loop thread is reading.
C34_Witness ==
  \E k \in Attempts, n \in Attempts :
    /\ k < n
    /\ attCam[k] = attCam[n]
    /\ Abandoned(k)
    /\ active_streams[attCam[n]] = n
    /\ is_streaming[n]
    /\ loopPc[n] = "read"


\* The attempts made for camera c: whose acquisition is running (its thread
\* in the strategy loop or in init_worker, or its init_worker still in a
\* native call), whose handle is open, whose loop thread is alive and has
\* not been abandoned by stop_camera_stream.
Acquiring(c) ==
  {k \in Attempts : attCam[k] = c /\ (acqPhase[k] \in {"test", "init"} \/ initHung[k])}

OpenHandles(c) ==
  {k \in Attempts : attCam[k] = c /\ capState[k] = "open"}

LiveLoops(c) ==
  {k \in Attempts : /\ attCam[k] = c
                    /\ loopPc[k] \in {"top", "read"}
                    /\ ~Abandoned(k)}

\* C35: for every camera id, in every interleaving of start and stop calls,
\* at most one acquisition for the id is in progress, at most one capture
\* handle of the id is open and at most one loop thread of the id that was
\* not abandoned is alive (the registry holds one session per id at most,
\* being a map from ids).
C35_OneOfEachPerCamera ==
  \A c \in Cams :
    /\ Cardinality(Acquiring(c)) <= 1
    /\ Cardinality(OpenHandles(c)) <= 1
    /\ Cardinality(LiveLoops(c)) <= 1


\* ================================ the locks of the MultiCameraStreamer
\* Every operation that takes stream_lock, the per-session frame_lock or
\* stats_lock, followed from one acquisition or release to the next, with the
\* loop thread of each registered session. Two callers run the operations
\* in any order against two camera ids. Each lock is a threading.Lock: a
\* thread that requests it while it is held waits, its holder included.
notLkVars == <<multiVars, service, vsVars, tsVars, plVars, clVars, rcVars,
               fVars, wkVars, seVars>>

\* The operations, by the lock they request first.
StreamLockOps == {"start", "stop", "stop_all", "get_camera_frame",
                  "get_camera_stats", "is_camera_active", "start_recording",
                  "generator"}
LockOps == StreamLockOps \cup {"get_aggregated_stats"}

\* The operations that visit every id of a snapshot of the registry, and
\* those that visit the id they were called with.
SnapshotOps == {"stop_all", "start_recording", "generator"}
OneCameraReaders == {"get_camera_frame", "get_camera_stats"}

\* The identity under which the loop thread of camera c holds a lock.
LoopThread(c) == Cardinality(Callers) + c

\* stop_all_streams leaves `with self.stream_lock` after the snapshot, before
\* it stops the cameras: the holder of stream_lock after the with-block of
\* caller t. (LockKeptForStopping, not in the source: the lock kept while
\* the cameras are stopped.)
LockKeptForStopping(t) == t

LockAfterSnapshot(t) == 0

\* The camera a loop over the ids still to visit takes next.
NextCamera(ids) == CHOOSE c \in ids : \A d \in ids : c <= d

\* A caller enters operation op, with camera id c for the operations that
\* take one, and reaches its first lock request.
LkCall(t, op, c) ==
  /\ service = "locks"
  /\ lkPc[t] = "idle"
  /\ lkOp' = SetAt(lkOp, t, op)
  /\ lkCam' = SetAt(lkCam, t, IF op \in SnapshotOps \cup {"get_aggregated_stats"}
                               THEN 0 ELSE c)
  /\ lkPc' = SetAt(lkPc, t, CASE op = "stop" -> "want_stop"
                              [] op = "get_aggregated_stats" -> "want_stats"
                              [] OTHER -> "want_stream")
  /\ UNCHANGED <<lkReg, lkStream, lkStats, lkFrame, lkLoop, lkTodo>>
  /\ UNCHANGED notLkVars

\* The caller returns.
LkReturn(t) ==
  /\ lkPc' = SetAt(lkPc, t, "idle")
  /\ lkOp' = SetAt(lkOp, t, "none")
  /\ lkCam' = SetAt(lkCam, t, 0)

\* `with self.stream_lock:` is entered by an operation other than
\* stop_camera_stream: the ids to visit are taken from the registry.
LkTakeStream(t) ==
  /\ lkPc[t] = "want_stream"
  /\ lkStream = 0
  /\ lkStream' = t
  /\ lkTodo' = SetAt(lkTodo, t,
                 IF lkOp[t] \in SnapshotOps THEN {c \in Cams : lkReg[c]}
                 ELSE IF lkOp[t] \in OneCameraReaders /\ lkReg[lkCam[t]]
                   THEN {lkCam[t]}
                 ELSE {})
  /\ lkPc' = SetAt(lkPc, t, CASE lkOp[t] = "start" -> "start_body"
                              [] lkOp[t] = "stop_all" -> "release_stream"
                              [] OTHER -> "gather")
  /\ UNCHANGED <<lkReg, lkStats, lkFrame, lkLoop, lkOp, lkCam>>
  /\ UNCHANGED notLkVars

\* start_camera_stream under stream_lock: the id is registered already, or
\* the acquisition fails, or the session is made with a frame_lock of its
\* own and its loop thread started, and registered.
LkStartBody(t) ==
  /\ lkPc[t] = "start_body"
  /\ \E made \in BOOLEAN :
       IF made /\ ~lkReg[lkCam[t]]
         THEN /\ lkReg' = SetAt(lkReg, lkCam[t], TRUE)
              /\ lkFrame' = SetAt(lkFrame, lkCam[t], 0)
              /\ lkLoop' = SetAt(lkLoop, lkCam[t], "run")
         ELSE UNCHANGED <<lkReg, lkFrame, lkLoop>>
  /\ lkPc' = SetAt(lkPc, t, "release_stream")
  /\ UNCHANGED <<lkStream, lkStats, lkOp, lkCam, lkTodo>>
  /\ UNCHANGED notLkVars

\* Under stream_lock, the next id of the snapshot that is still registered
\* is taken and its frame_lock requested; with none left the with-block of
\* stream_lock is left.
LkGather(t) ==
  /\ lkPc[t] = "gather"
  /\ IF lkTodo[t] = {}
       THEN /\ lkPc' = SetAt(lkPc, t, "release_stream")
            /\ UNCHANGED lkCam
       ELSE /\ lkCam' = SetAt(lkCam, t, NextCamera(lkTodo[t]))
            /\ lkPc' = SetAt(lkPc, t, "want_frame")
  /\ UNCHANGED <<lkReg, lkStream, lkStats, lkFrame, lkLoop, lkOp, lkTodo>>
  /\ UNCHANGED notLkVars

\* `with stream_info['frame_lock']:` is entered by a caller
LkTakeFrame(t) ==
  /\ lkPc[t] = "want_frame"
  /\ lkFrame[lkCam[t]] = 0
  /\ lkFrame' = SetAt(lkFrame, lkCam[t], t)
  /\ lkPc' = SetAt(lkPc, t, "in_frame")
  /\ UNCHANGED <<lkReg, lkStream, lkStats, lkLoop, lkOp, lkCam, lkTodo>>
  /\ UNCHANGED notLkVars

\* ... and left, the frame or the stats copied.
LkReleaseFrame(t) ==
  /\ lkPc[t] = "in_frame"
  /\ lkFrame' = SetAt(lkFrame, lkCam[t], 0)
  /\ lkTodo' = SetAt(lkTodo, t, lkTodo[t] \ {lkCam[t]})
  /\ lkPc' = SetAt(lkPc, t, "gather")
  /\ UNCHANGED <<lkReg, lkStream, lkStats, lkLoop, lkOp, lkCam>>
  /\ UNCHANGED notLkVars

\* The with-block of stream_lock is left. stop_all_streams goes on to stop
\* the ids of its snapshot; the other operations go on without a lock
\* (recorder, layout, encoding) and return.
LkReleaseStream(t) ==
  /\ lkPc[t] = "release_stream"
  /\ IF lkOp[t] = "stop_all"
       THEN /\ lkStream' = LockAfterSnapshot(t)
            /\ lkPc' = SetAt(lkPc, t, "stop_next")
            /\ UNCHANGED <<lkOp, lkCam>>
       ELSE /\ lkStream' = 0
            /\ LkReturn(t)
  /\ UNCHANGED <<lkReg, lkStats, lkFrame, lkLoop, lkTodo>>
  /\ UNCHANGED notLkVars

\* `for camera_id in camera_ids: self.stop_camera_stream(camera_id)`, and
\* after the loop pipeline.reset(), stop_all_processing() and the delay.
LkStopNext(t) ==
  /\ lkPc[t] = "stop_next"
  /\ IF lkTodo[t] = {}
       THEN LkReturn(t)
       ELSE /\ lkCam' = SetAt(lkCam, t, NextCamera(lkTodo[t]))
            /\ lkPc' = SetAt(lkPc, t, "want_stop")
            /\ UNCHANGED lkOp
  /\ UNCHANGED <<lkReg, lkStream, lkStats, lkFrame, lkLoop, lkTodo>>
  /\ UNCHANGED notLkVars

\* stop_camera_stream enters `with self.stream_lock:`; for a registered id
\* it sets the flag, releases the handle and joins the loop thread.
LkTakeStop(t) ==
  /\ lkPc[t] = "want_stop"
  /\ lkStream = 0
  /\ lkStream' = t
  /\ lkPc' = SetAt(lkPc, t, IF lkReg[lkCam[t]] THEN "stop_join" ELSE "stop_release")
  /\ UNCHANGED <<lkReg, lkStats, lkFrame, lkLoop, lkOp, lkCam, lkTodo>>
  /\ UNCHANGED notLkVars

\* join(timeout=2.0) returns, the thread ended or not; the session is
\* deleted from the registry, and its frame_lock and its loop thread with it
\* (a thread still alive goes on with the deleted stream_info alone).
LkStopJoin(t) ==
  /\ lkPc[t] = "stop_join"
  /\ lkReg' = SetAt(lkReg, lkCam[t], FALSE)
  /\ lkFrame' = SetAt(lkFrame, lkCam[t], 0)
  /\ lkLoop' = SetAt(lkLoop, lkCam[t], "none")
  /\ lkPc' = SetAt(lkPc, t, "stop_release")
  /\ UNCHANGED <<lkStream, lkStats, lkOp, lkCam, lkTodo>>
  /\ UNCHANGED notLkVars

\* stop_camera_stream leaves its with-block and returns, to the client or
\* into the loop of stop_all_streams.
LkStopRelease(t) ==
  /\ lkPc[t] = "stop_release"
  /\ lkStream' = 0
  /\ lkTodo' = SetAt(lkTodo, t, lkTodo[t] \ {lkCam[t]})
  /\ IF lkOp[t] = "stop_all"
       THEN /\ lkPc' = SetAt(lkPc, t, "stop_next")
            /\ UNCHANGED <<lkOp, lkCam>>
       ELSE LkReturn(t)
  /\ UNCHANGED <<lkReg, lkStats, lkFrame, lkLoop>>
  /\ UNCHANGED notLkVars

\* get_aggregated_stats: `with self.stats_lock:` entered ...
LkTakeStats(t) ==
  /\ lkPc[t] = "want_stats"
  /\ lkStats = 0
  /\ lkStats' = t
  /\ lkPc' = SetAt(lkPc, t, "in_stats")
  /\ UNCHANGED <<lkReg, lkStream, lkFrame, lkLoop, lkOp, lkCam, lkTodo>>
  /\ UNCHANGED notLkVars

\* ... and left with the copy.
LkReleaseStats(t) ==
  /\ lkPc[t] = "in_stats"
  /\ lkStats' = 0
  /\ LkReturn(t)
  /\ UNCHANGED <<lkReg, lkStream, lkFrame, lkLoop, lkTodo>>
  /\ UNCHANGED notLkVars

\* The loop thread of camera c has a result to publish and reaches
\* `with stream_info['frame_lock']:`.
LkLoopWants(c) ==
  /\ lkLoop[c] = "run"
  /\ lkLoop' = SetAt(lkLoop, c, "want_frame")
  /\ UNCHANGED <<lkReg, lkStream, lkStats, lkFrame, lkOp, lkPc, lkCam, lkTodo>>
  /\ UNCHANGED notLkVars

LkLoopTakes(c) ==
  /\ lkLoop[c] = "want_frame"
  /\ lkFrame[c] = 0
  /\ lkFrame' = SetAt(lkFrame, c, LoopThread(c))
  /\ lkLoop' = SetAt(lkLoop, c, "in_frame")
  /\ UNCHANGED <<lkReg, lkStream, lkStats, lkOp, lkPc, lkCam, lkTodo>>
  /\ UNCHANGED notLkVars

\* latest_frame and latest_stats are assigned and the frame_lock is left;
\* _update_aggregated_stats, which follows, takes no lock.
LkLoopReleases(c) ==
  /\ lkLoop[c] = "in_frame"
  /\ lkFrame' = SetAt(lkFrame, c, 0)
  /\ lkLoop' = SetAt(lkLoop, c, "run")
  /\ UNCHANGED <<lkReg, lkStream, lkStats, lkOp, lkPc, lkCam, lkTodo>>
  /\ UNCHANGED notLkVars

\* The loop is left (flag, read failure or exception) and the thread ends.
LkLoopEnds(c) ==
  /\ lkLoop[c] = "run"
  /\ lkLoop' = SetAt(lkLoop, c, "ended")
  /\ UNCHANGED <<lkReg, lkStream, lkStats, lkFrame, lkOp, lkPc, lkCam, lkTodo>>
  /\ UNCHANGED notLkVars

LocksInit ==
  /\ Constructed
  /\ service = "locks"

LocksNext ==
  \/ \E t \in Callers, op \in LockOps, c \in Cams : LkCall(t, op, c)
  \/ \E t \in Callers : LkTakeStream(t)
  \/ \E t \in Callers : LkStartBody(t)
  \/ \E t \in Callers : LkGather(t)
  \/ \E t \in Callers : LkTakeFrame(t)
  \/ \E t \in Callers : LkReleaseFrame(t)
  \/ \E t \in Callers : LkReleaseStream(t)
  \/ \E t \in Callers : LkStopNext(t)
  \/ \E t \in Callers : LkTakeStop(t)
  \/ \E t \in Callers : LkStopJoin(t)
  \/ \E t \in Callers : LkStopRelease(t)
  \/ \E t \in Callers : LkTakeStats(t)
  \/ \E t \in Callers : LkReleaseStats(t)
  \/ \E c \in Cams : LkLoopWants(c)
  \/ \E c \in Cams : LkLoopTakes(c)
  \/ \E c \in Cams : LkLoopReleases(c)
  \/ \E c \in Cams : LkLoopEnds(c)

LocksSpec == LocksInit /\ [][LocksNext]_vars

\* The lock a thread is waiting for, and who holds it (0: the thread is not
\* waiting, or the lock is free). Threads are the callers and the loop
\* threads.
LockThreads == Callers \cup {LoopThread(c) : c \in Cams}

WaitsForHolder(x) ==
  IF x \in Callers
    THEN CASE lkPc[x] \in {"want_stream", "want_stop"} -> lkStream
           [] lkPc[x] = "want_frame" -> lkFrame[lkCam[x]]
           [] lkPc[x] = "want_stats" -> lkStats
           [] OTHER -> 0
    ELSE LET c == x - Cardinality(Callers) IN
         IF lkLoop[c] = "want_frame" THEN lkFrame[c] ELSE 0

\* A step of caller t inside its operation, and a step of the loop thread of
\* camera c.
LkStep(t) ==
  \/ LkTakeStream(t) \/ LkStartBody(t) \/ LkGather(t) \/ LkTakeFrame(t)
  \/ LkReleaseFrame(t) \/ LkReleaseStream(t) \/ LkStopNext(t) \/ LkTakeStop(t)
  \/ LkStopJoin(t) \/ LkStopRelease(t) \/ LkTakeStats(t) \/ LkReleaseStats(t)

LkLoopStep(c) ==
  LkLoopWants(c) \/ LkLoopTakes(c) \/ LkLoopReleases(c) \/ LkLoopEnds(c)

\* Caller t holds a lock.
HoldsALock(t) ==
  lkStream = t \/ lkStats = t \/ \E c \in Cams : lkFrame[c] = t

\* C36: no interleaving of the operations of the MultiCameraStreamer with the
\* loop threads deadlocks: a thread that requests stream_lock holds neither
\* stream_lock nor a frame_lock nor stats_lock; while stop_camera_stream joins
\* a loop thread under stream_lock the thread is not waiting for a lock
\* somebody holds; whoever waits for a lock waits for a thread that is
\* itself not waiting, or waits for one that is not; and a thread inside an
\* operation that is not waiting for a held lock can take its next step.
C36_NoDeadlockOnTheLocks ==
  /\ \A t \in Callers :
       lkPc[t] \in {"want_stream", "want_stop"} => ~HoldsALock(t)
  /\ \A t \in Callers :
       lkPc[t] = "stop_join" => WaitsForHolder(LoopThread(lkCam[t])) = 0
  /\ \A x \in LockThreads :
       LET h == WaitsForHolder(x) IN
       h # 0 => (WaitsForHolder(h) = 0 \/ WaitsForHolder(WaitsForHolder(h)) = 0)
  /\ \A t \in Callers :
       (lkPc[t] # "idle" /\ WaitsForHolder(t) = 0) => ENABLED LkStep(t)
  /\ \A c \in Cams :
       (lkLoop[c] \in {"run", "want_frame", "in_frame"}
          /\ WaitsForHolder(LoopThread(c)) = 0) => ENABLED LkLoopStep(c)

\* stop_camera_stream is in its join under stream_lock while the other
\* caller waits for stream_lock and the loop thread wants its frame_lock.
C36_Witness ==
  \E t \in Callers, u \in Callers :
    /\ lkPc[t] = "stop_join"
    /\ lkLoop[lkCam[t]] = "want_frame"
    /\ lkPc[u] = "want_stream"
    /\ lkOp[u] = "generator"


\* The workers that are cleaning up, opening or reading the device.
WorkersOnDevice == {w \in Workers : wkPc[w] \notin {"none", "ended"}}

\* C37: during one acquisition at most one worker thread at a time is
\* cleaning up, opening or reading the device: when the next worker starts
\* its force-cleanup, no earlier worker is still running.
C37_OneWorkerOnDevice == Cardinality(WorkersOnDevice) <= 1


\* C38: each active multi-camera recording receives each snapshot of the
\* latest camera frames at most once: with several consumers iterating the
\* generator, the frames as they are now have been written to a recording by
\* one consumer at most.
C38_SnapshotWrittenOnce ==
  \A r \in RecIds : Cardinality(recWrites[r]) <= 1


\* ================= the pipeline shared by the two streamers (src/app.py)
\* The VideoStreamer is streaming: its loop calls process_frame on the
\* pipeline for the frames it does not skip. No camera is registered with
\* the MultiCameraStreamer, which was constructed with the same pipeline; a
\* client calls its stop_all_streams.
SharedPipelineInit ==
  /\ Constructed
  /\ service = "shared"

SharedPipelineNext ==
  \/ \E dets \in FrameInputs : ProcessFrame(dets)
  \/ \E t \in Callers : SaCall(t)
  \/ \E t \in Callers : SaSnapshot(t)
  \/ \E t \in Callers : SaLoopDone(t)
  \/ \E t \in Callers : SaReset(t)
  \/ \E t \in Callers : SaStopProcessors(t)
  \/ \E t \in Callers : SaSleep(t)

SharedPipelineSpec == SharedPipelineInit /\ [][SharedPipelineNext]_vars

\* C39: stop_all_streams of the MultiCameraStreamer leaves the tracker's
\* tracks and id counter, the classifier's history and the frame_count of
\* the pipeline the VideoStreamer is processing frames with as they are.
C39_StopAllLeavesSharedPipelineAlone ==
  [][\A t \in Callers :
       (saPc[t] # "none" /\ saPc'[t] # saPc[t]) =>
         UNCHANGED <<next_id, tkBox, tkMiss, histIds, plFrameCount>>]_vars
====
